---------------------------- MODULE Spec2Model ----------------------------
(***************************************************************************)
(* Fleet compliance and derived state of the vehicle management service:   *)
(* the dashboard reminders (get_dashboard), the fee generation of the      *)
(* maintenance and inspection write handlers, and the asset state reducer  *)
(* (get_asset_log_list).  Each request handler of app.py is one action;    *)
(* the database tables, the clock and the last request/response are the    *)
(* state.                                                                  *)
(***************************************************************************)
EXTENDS Integers, Sequences, FiniteSets, Bags, TLC

VARIABLES
    vehicles,      \* table vehicles: id -> row
    inspections,   \* table inspections: id -> row
    maintenance,   \* table maintenance: id -> row
    fees,          \* table fees, in insertion order
    asset_logs,    \* table vehicle_asset_logs of one vehicle: a bag of rows
    disposals,     \* table disposals: id -> row
    today,         \* the last value date.today() returned
    request,       \* the request handled last
    response,      \* the response it was given
    locals,        \* get_dashboard's per-vehicle local variables (line 243)
    maint_locals   \* get_dashboard's per-vehicle local variables (line 285)

vars == <<vehicles, inspections, maintenance, fees, asset_logs, disposals, today,
          request, response, locals, maint_locals>>

-----------------------------------------------------------------------------
(* Python's Optional[T]: None is the empty tuple, a value x is <<x>>.      *)

None == <<>>

Some(x) == <<x>>

Val(o) == o[1]

(* Truthiness of an Optional[str]: None and "" are both falsy.             *)
TruthyStr(o) == o # None /\ Val(o) # ""

-----------------------------------------------------------------------------
(* datetime.date as the integer yyyymmdd (its order is the date order),    *)
(* and dateutil's relativedelta arithmetic.                                *)

Year(d) == d \div 10000

Month(d) == (d \div 100) % 100

Day(d) == d % 100

MkDate(y, m, d) == y * 10000 + m * 100 + d

IsLeap(y) == (y % 4 = 0 /\ y % 100 # 0) \/ y % 400 = 0

DaysInMonth(y, m) ==
    IF m = 2 THEN (IF IsLeap(y) THEN 29 ELSE 28)
    ELSE IF m \in {4, 6, 9, 11} THEN 30 ELSE 31

(* date + relativedelta(months=n): the month moves, the day is clipped to  *)
(* the length of the month reached.                                        *)
AddMonths(d, n) ==
    LET total == Year(d) * 12 + (Month(d) - 1) + n
        y == total \div 12
        m == (total % 12) + 1
        dim == DaysInMonth(y, m)
    IN  MkDate(y, m, IF Day(d) < dim THEN Day(d) ELSE dim)

(* date + relativedelta(years=n)                                           *)
AddYears(d, n) == AddMonths(d, 12 * n)

(* relativedelta(dt1, dt2).years: the month difference is corrected by one *)
(* when dt2 moved by it overshoots dt1, then split into years and months   *)
(* with the sign kept.                                                     *)
RelativeDeltaYears(dt1, dt2) ==
    LET months0 == (Year(dt1) - Year(dt2)) * 12 + (Month(dt1) - Month(dt2))
        months ==
            IF dt1 < dt2
            THEN (IF dt1 > AddMonths(dt2, months0) THEN months0 + 1 ELSE months0)
            ELSE (IF dt1 < AddMonths(dt2, months0) THEN months0 - 1 ELSE months0)
    IN  IF months >= 0 THEN months \div 12 ELSE 0 - ((0 - months) \div 12)

(* date.toordinal up to a constant: the day count of the proleptic         *)
(* Gregorian calendar.                                                     *)
DayNumber(d) ==
    LET y == IF Month(d) <= 2 THEN Year(d) - 1 ELSE Year(d)
        mp == IF Month(d) > 2 THEN Month(d) - 3 ELSE Month(d) + 9
        doy == (153 * mp + 2) \div 5 + Day(d) - 1
    IN  y * 365 + y \div 4 - y \div 100 + y \div 400 + doy

(* (d1 - d2).days                                                          *)
DaysBetween(d1, d2) == DayNumber(d1) - DayNumber(d2)

-----------------------------------------------------------------------------
(* Enumerations of models.py.                                              *)

VehicleType == {"car", "motorcycle", "van", "truck", "ev_scooter"}

VehicleStatus == {"active", "maintenance", "retired"}

MaintenanceCategory ==
    {"maintenance", "repair", "carwash", "deep_cleaning", "ritual_cleaning"}

InspectionKind == {"periodic", "emission", "reinspection"}

AssetType == {"key", "dashcam", "etag", "other"}

AssetStatus == {"assigned", "returned", "lost", "disposed"}


-----------------------------------------------------------------------------
(* Helpers over tables and lists.                                          *)

Max(S) == CHOOSE x \in S : \A y \in S : y <= x

(* All orders in which a query without ORDER BY may return the rows S.     *)
Orderings(S) ==
    {o \in [1..Cardinality(S) -> S] : \A i, j \in DOMAIN o : i # j => o[i] # o[j]}

(* list.sort(key=...) on <<key, item>> pairs: stable, ascending.           *)
Insert(sorted, p) ==
    LET n == Cardinality({i \in DOMAIN sorted : sorted[i][1] <= p[1]})
    IN  SubSeq(sorted, 1, n) \o <<p>> \o SubSeq(sorted, n + 1, Len(sorted))

RECURSIVE StableSort(_)
StableSort(s) ==
    IF s = <<>> THEN <<>>
    ELSE Insert(StableSort(SubSeq(s, 1, Len(s) - 1)), s[Len(s)])

Items(pairs) == [i \in DOMAIN pairs |-> pairs[i][2]]

-----------------------------------------------------------------------------
(* GET /dashboard                                                          *)

reminder_buffer_months == 1

maintenance_time_interval_months == 6

(* reminder_date_threshold = today + relativedelta(months=1)               *)
reminder_date_threshold(t) == AddMonths(t, reminder_buffer_months)

(* Mutant of active_vehicles: the query has no status filter.              *)
active_vehicles_any_status == DOMAIN vehicles

(* select(Vehicle).where(Vehicle.status == VehicleStatus.active)           *)
active_vehicles == {v \in DOMAIN vehicles : vehicles[v].status = "active"}

(* Mutant of last_insp_date: the earliest completed inspection counts.     *)
last_insp_date_earliest(v) ==
    LET done == {Val(inspections[i].inspected_on) :
                    i \in {j \in DOMAIN inspections :
                              /\ inspections[j].vehicle_id = v
                              /\ inspections[j].inspected_on # None}}
    IN  IF done = {} THEN None ELSE Some(CHOOSE x \in done : \A y \in done : x <= y)

(* Mutant of last_insp_date: a record without inspected_on counts as an    *)
(* inspection of the day of the request before.                            *)
last_insp_date_uncompleted(v) ==
    LET done == {IF inspections[i].inspected_on # None
                 THEN Val(inspections[i].inspected_on) ELSE today :
                    i \in {j \in DOMAIN inspections : inspections[j].vehicle_id = v}}
    IN  IF done = {} THEN None ELSE Some(Max(done))

(* max(insp.inspected_on for insp in vehicle.inspections if                *)
(* insp.inspected_on), or None                                             *)
last_insp_date(v) ==
    LET done == {Val(inspections[i].inspected_on) :
                    i \in {j \in DOMAIN inspections :
                              /\ inspections[j].vehicle_id = v
                              /\ inspections[j].inspected_on # None}}
    IN  IF done = {} THEN None ELSE Some(Max(done))

(* Mutant of RuleCar: a car of exactly 5 years is still exempt.            *)
RuleCar_ExemptAtFive(age, last, mfg) ==
    IF age <= 5 THEN [status |-> "exempt", next_due_date |-> None]
    ELSE IF age < 10
    THEN [status |-> "annual",
          next_due_date |-> IF last # None THEN Some(AddYears(Val(last), 1))
                            ELSE Some(AddYears(mfg, 5))]
    ELSE [status |-> "semiannual",
          next_due_date |-> IF last # None THEN Some(AddMonths(Val(last), 6))
                            ELSE Some(AddYears(mfg, 10))]

(* Mutant of RuleCar: a car of 10 years never inspected keeps the due date *)
(* of its 5th anniversary.                                                 *)
RuleCar_FirstDueKept(age, last, mfg) ==
    IF age < 5 THEN [status |-> "exempt", next_due_date |-> None]
    ELSE IF 5 <= age /\ age < 10
    THEN [status |-> "annual",
          next_due_date |-> IF last # None THEN Some(AddYears(Val(last), 1))
                            ELSE Some(AddYears(mfg, 5))]
    ELSE [status |-> "semiannual",
          next_due_date |-> IF last # None THEN Some(AddMonths(Val(last), 6))
                            ELSE Some(AddYears(mfg, 5))]

(* Rule A: car.                                                            *)
RuleCar(age, last, mfg) ==
    IF age < 5 THEN [status |-> "exempt", next_due_date |-> None]
    ELSE IF 5 <= age /\ age < 10
    THEN [status |-> "annual",
          next_due_date |-> IF last # None THEN Some(AddYears(Val(last), 1))
                            ELSE Some(AddYears(mfg, 5))]
    ELSE [status |-> "semiannual",
          next_due_date |-> IF last # None THEN Some(AddMonths(Val(last), 6))
                            ELSE Some(AddYears(mfg, 10))]

(* Mutant of RuleMotorcycle: semiannual from 10 years on, as for cars.     *)
RuleMotorcycle_SemiannualAtTen(age, last, mfg) ==
    IF age < 5 THEN [status |-> "exempt", next_due_date |-> None]
    ELSE IF age < 10
    THEN [status |-> "annual",
          next_due_date |-> IF last # None THEN Some(AddYears(Val(last), 1))
                            ELSE Some(AddYears(mfg, 5))]
    ELSE [status |-> "semiannual",
          next_due_date |-> IF last # None THEN Some(AddMonths(Val(last), 6))
                            ELSE Some(AddYears(mfg, 5))]

(* Mutant of RuleMotorcycle: no exemption below 5 years.                   *)
RuleMotorcycle_NoExemption(age, last, mfg) ==
    [status |-> "annual",
     next_due_date |-> IF last # None THEN Some(AddYears(Val(last), 1))
                       ELSE Some(AddYears(mfg, 5))]

(* Rule B: motorcycle, ev_scooter.                                         *)
RuleMotorcycle(age, last, mfg) ==
    IF age < 5 THEN [status |-> "exempt", next_due_date |-> None]
    ELSE [status |-> "annual",
          next_due_date |-> IF last # None THEN Some(AddYears(Val(last), 1))
                            ELSE Some(AddYears(mfg, 5))]

(* Mutant of RuleTruck: the first inspection of a young van is due at 5    *)
(* years, as for cars.                                                     *)
RuleTruck_FirstAtFive(age, last, mfg) ==
    IF age < 5
    THEN [status |-> "annual",
          next_due_date |-> IF last # None THEN Some(AddYears(Val(last), 1))
                            ELSE Some(AddYears(mfg, 5))]
    ELSE [status |-> "semiannual",
          next_due_date |-> IF last # None THEN Some(AddMonths(Val(last), 6))
                            ELSE Some(AddYears(mfg, 5))]

(* Rule C: truck, van.                                                     *)
RuleTruck(age, last, mfg) ==
    IF age < 5
    THEN [status |-> "annual",
          next_due_date |-> IF last # None THEN Some(AddYears(Val(last), 1))
                            ELSE Some(AddYears(mfg, 1))]
    ELSE [status |-> "semiannual",
          next_due_date |-> IF last # None THEN Some(AddMonths(Val(last), 6))
                            ELSE Some(AddYears(mfg, 5))]

(* The if/elif chain on vehicle.vehicle_type, lines 197-241: the status    *)
(* text (as its cadence) and next_due_date.                                *)
InspectionRule(vehicle_type, age, last, mfg) ==
    IF vehicle_type = "car" THEN RuleCar(age, last, mfg)
    ELSE IF vehicle_type \in {"motorcycle", "ev_scooter"}
    THEN RuleMotorcycle(age, last, mfg)
    ELSE IF vehicle_type \in {"truck", "van"} THEN RuleTruck(age, last, mfg)
    ELSE [status |-> "", next_due_date |-> None]

(* The local variables of one loop iteration when line 243 is reached;     *)
(* None when the vehicle has no manufacture_date (line 180).               *)
InspectionLocals(v, t) ==
    IF vehicles[v].manufacture_date = None THEN None
    ELSE LET mfg == Val(vehicles[v].manufacture_date)
             age == RelativeDeltaYears(t, mfg)
             last == last_insp_date(v)
             rule == InspectionRule(vehicles[v].vehicle_type, age, last, mfg)
         IN  Some([vehicle_age_years |-> age,
                   last_insp_date |-> last,
                   status |-> rule.status,
                   next_due_date |-> rule.next_due_date])

(* Mutant of IsOverdue: a vehicle due today counts as overdue.             *)
IsOverdue_DueToday(due, t) == due <= t

(* is_overdue = next_due_date < today                                      *)
IsOverdue(due, t) == due < t

(* next_due_date and next_due_date <= reminder_date_threshold              *)
InReminderWindow(due, t) == due # None /\ Val(due) <= reminder_date_threshold(t)

(* Lines 243-257: the InspectionReminder appended for vehicle v, or None.  *)
InspectionReminder(v, t) ==
    LET l == InspectionLocals(v, t)
    IN  IF l = None THEN None
        ELSE IF ~InReminderWindow(Val(l).next_due_date, t) THEN None
        ELSE LET due == Val(Val(l).next_due_date)
                 is_overdue == IsOverdue(due, t)
             IN  Some([vehicle |-> v,
                       status |-> <<IF is_overdue THEN "overdue" ELSE "upcoming", due>>,
                       last_inspection_date |-> Val(l).last_insp_date,
                       next_due_date |-> Some(due),
                       is_overdue |-> is_overdue])

(* Mutant of last_maint_candidates: records of every category count.       *)
last_maint_candidates_any_category(v) ==
    LET done == {m \in DOMAIN maintenance :
                    /\ maintenance[m].vehicle_id = v
                    /\ maintenance[m].performed_on # None}
    IN  {m \in done : \A o \in done :
            Val(maintenance[o].performed_on) <= Val(maintenance[m].performed_on)}

(* The rows max(..., key=performed_on) may return: routine maintenance     *)
(* with a performed_on date, of the greatest date; the relationship's row  *)
(* order decides among equal dates.                                        *)
last_maint_candidates(v) ==
    LET routine == {m \in DOMAIN maintenance :
                       /\ maintenance[m].vehicle_id = v
                       /\ maintenance[m].performed_on # None
                       /\ maintenance[m].category = "maintenance"}
    IN  {m \in routine : \A o \in routine :
            Val(maintenance[o].performed_on) <= Val(maintenance[m].performed_on)}

(* Mutant of next_maint_due_date: due from the 180th day on.               *)
next_maint_due_date_from_day_180(v, last_maint_date, t) ==
    IF last_maint_date # None
    THEN Some(AddMonths(Val(last_maint_date), maintenance_time_interval_months))
    ELSE IF /\ vehicles[v].manufacture_date # None
            /\ DaysBetween(t, Val(vehicles[v].manufacture_date)) >= 180
    THEN Some(t)
    ELSE None

(* Lines 277-283: next_maint_due_date.                                     *)
next_maint_due_date(v, last_maint_date, t) ==
    IF last_maint_date # None
    THEN Some(AddMonths(Val(last_maint_date), maintenance_time_interval_months))
    ELSE IF /\ vehicles[v].manufacture_date # None
            /\ DaysBetween(t, Val(vehicles[v].manufacture_date)) > 180
    THEN Some(t)
    ELSE None

(* The local variables of one loop iteration when line 285 is reached and  *)
(* max returned row last_maint (None: no routine maintenance).             *)
MaintenanceLocals(v, last_maint, t) ==
    LET last_maint_date ==
            IF last_maint = None THEN None
            ELSE maintenance[Val(last_maint)].performed_on
    IN  [last_maint_date |-> last_maint_date,
         next_maint_due_date |-> next_maint_due_date(v, last_maint_date, t)]

(* Lines 262-295: the MaintenanceReminder appended for vehicle v when max  *)
(* returned row last_maint (None: no routine maintenance), or None.        *)
MaintenanceReminder(v, last_maint, t) ==
    LET last_maint_date ==
            IF last_maint = None THEN None
            ELSE maintenance[Val(last_maint)].performed_on
        last_maint_km ==
            IF last_maint = None THEN None
            ELSE maintenance[Val(last_maint)].odometer_km
    IN  IF ~InReminderWindow(next_maint_due_date(v, last_maint_date, t), t)
        THEN None
        ELSE Some([vehicle |-> v,
                   status |-> IF last_maint_date = None THEN "no_record"
                              ELSE "overdue_time",
                   last_maintenance_date |-> last_maint_date,
                   last_maintenance_km |-> last_maint_km])

(* The choices of max for every active vehicle.                            *)
LastMaintChoices ==
    {f \in [active_vehicles -> {None} \cup {Some(m) : m \in DOMAIN maintenance}] :
        \A v \in active_vehicles :
            IF last_maint_candidates(v) = {} THEN f[v] = None
            ELSE f[v] # None /\ Val(f[v]) \in last_maint_candidates(v)}

(* The reminders of the vehicles in loop order, those without one dropped. *)
Appended(all) ==
    LET kept == SelectSeq(all, LAMBDA r : r # None)
    IN  [i \in DOMAIN kept |-> Val(kept[i])]

(* Mutant of SortInspectionReminders: the list stays in loop order.        *)
SortInspectionReminders_LoopOrder(rs, t) == rs

(* Line 298: sort by next_due_date, today when it is missing.              *)
SortInspectionReminders(rs, t) ==
    Items(StableSort([i \in DOMAIN rs |->
        <<IF rs[i].next_due_date # None THEN Val(rs[i].next_due_date) ELSE t, rs[i]>>]))

(* Mutant of SortMaintenanceReminders: a missing date sorts before every   *)
(* date.                                                                   *)
SortMaintenanceReminders_MissingFirst(rs, t) ==
    Items(StableSort([i \in DOMAIN rs |->
        <<IF rs[i].last_maintenance_date # None
          THEN Val(rs[i].last_maintenance_date) ELSE 0, rs[i]>>]))

(* Line 299: sort by last_maintenance_date, today when it is missing.      *)
SortMaintenanceReminders(rs, t) ==
    Items(StableSort([i \in DOMAIN rs |->
        <<IF rs[i].last_maintenance_date # None
          THEN Val(rs[i].last_maintenance_date) ELSE t, rs[i]>>]))

(* The handler: t is date.today(), order the order in which the query      *)
(* returns the active vehicles, pick the rows max returns.                 *)
get_dashboard(t, order, pick) ==
    /\ t >= today
    /\ order \in Orderings(active_vehicles)
    /\ pick \in LastMaintChoices
    /\ today' = t
    /\ request' = [handler |-> "get_dashboard"]
    /\ locals' = [v \in active_vehicles |-> InspectionLocals(v, t)]
    /\ maint_locals' = [v \in active_vehicles |-> MaintenanceLocals(v, pick[v], t)]
    /\ response' =
          [status_code |-> 200,
           inspection_reminders |->
              SortInspectionReminders(
                 Appended([i \in DOMAIN order |-> InspectionReminder(order[i], t)]), t),
           maintenance_reminders |->
              SortMaintenanceReminders(
                 Appended([i \in DOMAIN order |->
                              MaintenanceReminder(order[i], pick[order[i]], t)]), t)]
    /\ UNCHANGED <<vehicles, inspections, maintenance, fees, asset_logs, disposals>>

-----------------------------------------------------------------------------
(* Form fields.  A date field holds None or the date its ISO text denotes  *)
(* (date.fromisoformat); an id field None, "" or the id of an employee.    *)

Employees == {"e1", "e2"}

(* UUID(user_id) if user_id else None                                      *)
ToUuid(o) == IF TruthyStr(o) THEN o ELSE None

(* Decimal(text) of the amount texts used, in hundredths; a text outside   *)
(* the table is not a number and Decimal raises.                           *)
DecimalTable ==
    [t \in {"0", "0.00", "0.01", "-5", "1500", "300"} |->
        CASE t = "0"    -> 0
          [] t = "0.00" -> 0
          [] t = "0.01" -> 1
          [] t = "-5"   -> 0 - 500
          [] t = "1500" -> 150000
          [] t = "300"  -> 30000]

DecimalRaises(o) == TruthyStr(o) /\ Val(o) \notin DOMAIN DecimalTable

(* Decimal(amount) if amount else None                                     *)
ToDecimal(o) == IF TruthyStr(o) THEN Some(DecimalTable[Val(o)]) ELSE None

MAINTENANCE_CATEGORY_MAP ==
    [c \in MaintenanceCategory |->
        CASE c = "maintenance"     -> "routine maintenance"
          [] c = "repair"          -> "repair work"
          [] c = "carwash"         -> "car wash"
          [] c = "deep_cleaning"   -> "hand wash"
          [] c = "ritual_cleaning" -> "ritual cleaning"]

INSPECTION_KIND_MAP ==
    [k \in InspectionKind |->
        CASE k = "periodic"     -> "periodic inspection"
          [] k = "emission"     -> "emission inspection"
          [] k = "reinspection" -> "reinspection"]

(* A handler that only answers: nothing stored changes.                    *)
Answer(req, code) ==
    /\ request' = req
    /\ response' = [status_code |-> code]
    /\ locals' = <<>>
    /\ maint_locals' = <<>>

-----------------------------------------------------------------------------
(* POST /vehicle/new, /vehicle/{vehicle_id}/edit                           *)

create_or_update_vehicle(vehicle_id, new_id, form, commit_ok) ==
    LET req == [handler |-> "create_or_update_vehicle", vehicle_id |-> vehicle_id]
        id == IF vehicle_id # None THEN Val(vehicle_id) ELSE new_id
        row == [plate_no |-> form.plate_no,
                vehicle_type |-> form.vehicle_type,
                status |-> form.status,
                manufacture_date |-> form.manufacture_date]
        \* plate_no is unique
        unique == \A o \in DOMAIN vehicles \ {id} : vehicles[o].plate_no # form.plate_no
    IN  /\ vehicle_id = None => new_id \notin DOMAIN vehicles
        /\ UNCHANGED <<inspections, maintenance, fees, asset_logs, today, disposals>>
        /\ IF vehicle_id # None /\ Val(vehicle_id) \notin DOMAIN vehicles
           THEN Answer(req, 404) /\ UNCHANGED vehicles
           ELSE IF vehicle_id = None /\ ~unique
           THEN Answer(req, 400) /\ UNCHANGED vehicles
           ELSE IF commit_ok /\ unique
           THEN Answer(req, 200) /\ vehicles' = (id :> row) @@ vehicles
           ELSE Answer(req, 500) /\ UNCHANGED vehicles

-----------------------------------------------------------------------------
(* POST /maintenance/new, /maintenance/{maint_id}/edit                     *)

(* Mutant of fee_user_id: the user comes before the handler.               *)
fee_user_id_user_first(handler_uuid, user_uuid) ==
    IF user_uuid # None THEN user_uuid ELSE handler_uuid

(* fee_user_id = handler_uuid if handler_uuid else user_uuid               *)
fee_user_id(handler_uuid, user_uuid) ==
    IF handler_uuid # None THEN handler_uuid ELSE user_uuid

(* Mutant of AmountTriggersFee: an amount of zero triggers a fee too.      *)
AmountTriggersFee_Zero(amount) == amount # None /\ Val(amount) >= 0

(* if maint.amount and maint.amount > 0  (Decimal(0) is falsy)             *)
AmountTriggersFee(amount) == amount # None /\ Val(amount) # 0 /\ Val(amount) > 0

(* Mutant of MaintenanceFeeType: cleaning counts as parts, like repair.    *)
MaintenanceFeeType_CleaningAsParts(category) ==
    IF category \in {"repair", "deep_cleaning"} THEN "repair_parts"
    ELSE "maintenance_service"

MaintenanceFeeType(category) ==
    IF category = "repair" THEN "repair_parts" ELSE "maintenance_service"

(* Mutant of MaintenanceFee: the note names the category only.             *)
MaintenanceFee_CategoryOnly(maint, form) ==
    [vehicle_id |-> Some(maint.vehicle_id),
     user_id |-> fee_user_id(ToUuid(form.handler_id), ToUuid(form.user_id)),
     receive_date |-> maint.performed_on,
     request_date |-> maint.performed_on,
     fee_type |-> MaintenanceFeeType(form.category),
     amount |-> maint.amount,
     is_paid |-> form.is_reconciled,
     notes |-> <<"auto", MAINTENANCE_CATEGORY_MAP[form.category]>>]

(* Lines 913-922: the Fee built from the maintenance row being saved.      *)
MaintenanceFee(maint, form) ==
    [vehicle_id |-> Some(maint.vehicle_id),
     user_id |-> fee_user_id(ToUuid(form.handler_id), ToUuid(form.user_id)),
     receive_date |-> maint.performed_on,
     request_date |-> maint.performed_on,
     fee_type |-> MaintenanceFeeType(form.category),
     amount |-> maint.amount,
     is_paid |-> form.is_reconciled,
     notes |-> <<"auto", MAINTENANCE_CATEGORY_MAP[form.category],
                 IF TruthyStr(form.notes) THEN Val(form.notes) ELSE "">>]

(* Lines 886-902: the row after the assignments from the form.             *)
MaintenanceRow(vehicle_id, form) ==
    [vehicle_id |-> vehicle_id,
     category |-> form.category,
     performed_on |-> form.performed_on,
     user_id |-> ToUuid(form.user_id),
     handler_id |-> ToUuid(form.handler_id),
     odometer_km |-> form.odometer_km,
     amount |-> ToDecimal(form.amount),
     is_reconciled |-> form.is_reconciled,
     notes |-> form.notes]

(* Mutant of FeesAfter: a fee is added only while the table holds none.    *)
FeesAfter_OnceOnly(amount, fee) ==
    IF amount # None /\ Val(amount) > 0 /\ fees = <<>> THEN Append(fees, fee) ELSE fees

(* Mutant of FeesAfter: the write also copies its reconciliation flag to   *)
(* the fees that exist.                                                    *)
FeesAfter_SyncPaid(amount, fee) ==
    LET synced == [i \in DOMAIN fees |-> [fees[i] EXCEPT !.is_paid = fee.is_paid]]
    IN  IF amount # None /\ Val(amount) > 0 THEN Append(synced, fee) ELSE synced

(* The fees table after db.add(new_fee), or as it was.                     *)
FeesAfter(amount, fee) == IF AmountTriggersFee(amount) THEN Append(fees, fee) ELSE fees

(* Mutant of create_or_update_maintenance: the record is committed on its  *)
(* own before the fee, so a failing commit of the fee leaves the record.   *)
create_or_update_maintenance_TwoCommits(maint_id, new_id, form, commit_ok) ==
    LET req == [handler |-> "create_or_update_maintenance", maint_id |-> maint_id]
        id == IF maint_id # None THEN Val(maint_id) ELSE new_id
        vehicle_id == IF maint_id # None THEN maintenance[id].vehicle_id
                      ELSE Val(form.vehicle_id)
        maint == MaintenanceRow(vehicle_id, form)
        fk == vehicle_id \in DOMAIN vehicles
    IN  /\ maint_id = None => new_id \notin DOMAIN maintenance
        /\ UNCHANGED <<vehicles, inspections, asset_logs, today, disposals>>
        /\ IF maint_id # None /\ Val(maint_id) \notin DOMAIN maintenance
           THEN Answer(req, 404) /\ UNCHANGED <<maintenance, fees>>
           ELSE IF maint_id = None /\ form.vehicle_id = None
           THEN Answer(req, 400) /\ UNCHANGED <<maintenance, fees>>
           ELSE IF DecimalRaises(form.amount)
           THEN Answer(req, 500) /\ UNCHANGED <<maintenance, fees>>
           ELSE IF ~fk
           THEN Answer(req, 500) /\ UNCHANGED <<maintenance, fees>>
           ELSE IF commit_ok
           THEN /\ Answer(req, 200)
                /\ maintenance' = (id :> maint) @@ maintenance
                /\ fees' = FeesAfter(maint.amount, MaintenanceFee(maint, form))
           ELSE /\ Answer(req, 500)
                /\ maintenance' = (id :> maint) @@ maintenance
                /\ UNCHANGED fees

create_or_update_maintenance(maint_id, new_id, form, commit_ok) ==
    LET req == [handler |-> "create_or_update_maintenance", maint_id |-> maint_id]
        id == IF maint_id # None THEN Val(maint_id) ELSE new_id
        vehicle_id == IF maint_id # None THEN maintenance[id].vehicle_id
                      ELSE Val(form.vehicle_id)
        maint == MaintenanceRow(vehicle_id, form)
        \* maintenance.vehicle_id references vehicles.id
        fk == vehicle_id \in DOMAIN vehicles
    IN  /\ maint_id = None => new_id \notin DOMAIN maintenance
        /\ UNCHANGED <<vehicles, inspections, asset_logs, today, disposals>>
        /\ IF maint_id # None /\ Val(maint_id) \notin DOMAIN maintenance
           THEN Answer(req, 404) /\ UNCHANGED <<maintenance, fees>>
           ELSE IF maint_id = None /\ form.vehicle_id = None
           THEN Answer(req, 400) /\ UNCHANGED <<maintenance, fees>>
           ELSE IF DecimalRaises(form.amount)
           THEN Answer(req, 500) /\ UNCHANGED <<maintenance, fees>>
           ELSE IF commit_ok /\ fk
           THEN /\ Answer(req, 200)
                /\ maintenance' = (id :> maint) @@ maintenance
                /\ fees' = FeesAfter(maint.amount, MaintenanceFee(maint, form))
           ELSE Answer(req, 500) /\ UNCHANGED <<maintenance, fees>>

-----------------------------------------------------------------------------
(* DELETE /maintenance/{maint_id}/delete                                   *)
delete_maintenance(maint_id, commit_ok) ==
    LET req == [handler |-> "delete_maintenance", maint_id |-> Some(maint_id)]
    IN  /\ UNCHANGED <<vehicles, inspections, fees, asset_logs, today, disposals>>
        /\ IF maint_id \notin DOMAIN maintenance
           THEN Answer(req, 200) /\ UNCHANGED maintenance
           ELSE IF commit_ok
           THEN /\ Answer(req, 200)
                /\ maintenance' = [m \in DOMAIN maintenance \ {maint_id} |-> maintenance[m]]
           ELSE Answer(req, 400) /\ UNCHANGED maintenance

-----------------------------------------------------------------------------

(* POST /inspection/new, /inspection/{insp_id}/edit                        *)

(* Mutant of InspectionFee: the fee is made unpaid whatever the record's   *)
(* reconciliation flag.                                                    *)
InspectionFee_Unpaid(insp, form) ==
    LET receive_date_obj == IF insp.inspected_on # None THEN insp.inspected_on
                            ELSE insp.notification_date
    IN  [vehicle_id |-> Some(insp.vehicle_id),
         user_id |-> fee_user_id(ToUuid(form.handler_id), ToUuid(form.user_id)),
         receive_date |-> receive_date_obj,
         request_date |-> receive_date_obj,
         fee_type |-> "inspection_fee",
         amount |-> insp.amount,
         is_paid |-> FALSE,
         notes |-> <<"auto", "inspection fee", INSPECTION_KIND_MAP[form.kind]>>]

(* Lines 1197-1206: the Fee built from the inspection row being saved.     *)
InspectionFee(insp, form) ==
    LET receive_date_obj == IF insp.inspected_on # None THEN insp.inspected_on
                            ELSE insp.notification_date
    IN  [vehicle_id |-> Some(insp.vehicle_id),
         user_id |-> fee_user_id(ToUuid(form.handler_id), ToUuid(form.user_id)),
         receive_date |-> receive_date_obj,
         request_date |-> receive_date_obj,
         fee_type |-> "inspection_fee",
         amount |-> insp.amount,
         is_paid |-> form.is_reconciled,
         notes |-> <<"auto", "inspection fee", INSPECTION_KIND_MAP[form.kind]>>]

(* Lines 1169-1187: the row after the assignments from the form.           *)
InspectionRow(vehicle_id, form) ==
    [vehicle_id |-> vehicle_id,
     kind |-> form.kind,
     notification_date |-> form.notification_date,
     inspected_on |-> form.inspected_on,
     user_id |-> ToUuid(form.user_id),
     handler_id |-> ToUuid(form.handler_id),
     amount |-> ToDecimal(form.amount),
     is_reconciled |-> form.is_reconciled,
     notes |-> form.notes]

create_or_update_inspection(insp_id, new_id, form, commit_ok) ==
    LET req == [handler |-> "create_or_update_inspection", insp_id |-> insp_id]
        id == IF insp_id # None THEN Val(insp_id) ELSE new_id
        vehicle_id == IF insp_id # None THEN inspections[id].vehicle_id
                      ELSE Val(form.vehicle_id)
        insp == InspectionRow(vehicle_id, form)
        \* inspections.vehicle_id references vehicles.id
        fk == vehicle_id \in DOMAIN vehicles
    IN  /\ insp_id = None => new_id \notin DOMAIN inspections
        /\ UNCHANGED <<vehicles, maintenance, asset_logs, today, disposals>>
        /\ IF insp_id # None /\ Val(insp_id) \notin DOMAIN inspections
           THEN Answer(req, 404) /\ UNCHANGED <<inspections, fees>>
           ELSE IF insp_id = None /\ form.vehicle_id = None
           THEN Answer(req, 400) /\ UNCHANGED <<inspections, fees>>
           ELSE IF DecimalRaises(form.amount)
           THEN Answer(req, 500) /\ UNCHANGED <<inspections, fees>>
           ELSE IF commit_ok /\ fk
           THEN /\ Answer(req, 200)
                /\ inspections' = (id :> insp) @@ inspections
                /\ fees' = FeesAfter(insp.amount, InspectionFee(insp, form))
           ELSE Answer(req, 500) /\ UNCHANGED <<inspections, fees>>

-----------------------------------------------------------------------------
(* import_data.import_maintenance, run by the import script in a           *)
(* session_scope of its own: the rows of import_maintenance.csv as pandas  *)
(* reads them, a missing cell (NaN) being None.                            *)

(* clean_string: None for a missing or blank cell.                         *)
clean_string(o) == IF TruthyStr(o) THEN o ELSE None

(* clean_bool: False for a missing cell, else whether the text is one of   *)
(* the marks of true.                                                      *)
clean_bool(o) == o # None /\ Val(o) \in {"1", "true", "v", "yes", "y", "1.0"}

(* get_vehicle_id: the id of the vehicle with the plate, or None.          *)
get_vehicle_id(plate_no) ==
    IF clean_string(plate_no) = None THEN None
    ELSE LET found == {v \in DOMAIN vehicles : vehicles[v].plate_no = Val(plate_no)}
         IN  IF found = {} THEN None ELSE Some(CHOOSE v \in found : TRUE)

(* get_user_id: the id of the employee with the name, or None; employees   *)
(* are named by their ids here.                                            *)
get_user_id(name) ==
    IF clean_string(name) = None THEN None
    ELSE IF Val(name) \in Employees THEN name ELSE None

(* Lines 196-211: the Maintenance built from a row.                        *)
ImportedMaintenance(row) ==
    [vehicle_id |-> Val(get_vehicle_id(row.vehicle_plate_no)),
     category |-> Val(clean_string(row.category)),
     performed_on |-> row.performed_on,
     user_id |-> get_user_id(row.user_name),
     handler_id |-> get_user_id(row.handler_name),
     odometer_km |-> row.odometer_km,
     amount |-> row.amount,
     is_reconciled |-> clean_bool(row.is_reconciled),
     notes |-> clean_string(row.notes)]

(* Lines 213-232: the Fee built from a row; a missing notes cell is NaN,   *)
(* which is truthy and prints as "nan".                                    *)
ImportedMaintenanceFee(row) ==
    LET user_id == get_user_id(row.user_name)
        handler_id == get_user_id(row.handler_name)
    IN  [vehicle_id |-> get_vehicle_id(row.vehicle_plate_no),
         user_id |-> IF handler_id # None THEN handler_id ELSE user_id,
         receive_date |-> row.performed_on,
         request_date |-> row.performed_on,
         fee_type |-> IF Val(row.category) = "repair" THEN "repair_parts"
                      ELSE "maintenance_service",
         amount |-> row.amount,
         is_paid |-> clean_bool(row.is_reconciled),
         notes |-> <<"auto", Val(row.category),
                     IF row.notes # None THEN Val(row.notes) ELSE "nan">>]

(* The session after the loop over the rows: <<maintenance, fees>>; a row  *)
(* whose plate names no vehicle is skipped, new_ids are the ids uuid4      *)
(* gives the new records.                                                  *)
RECURSIVE ImportedRows(_, _, _)
ImportedRows(rows, new_ids, session) ==
    IF rows = <<>> THEN session
    ELSE LET row == Head(rows)
             maint == ImportedMaintenance(row)
             after ==
                IF get_vehicle_id(row.vehicle_plate_no) = None THEN session
                ELSE <<(Head(new_ids) :> maint) @@ session[1],
                       IF row.amount # None /\ Val(row.amount) > 0
                       THEN Append(session[2], ImportedMaintenanceFee(row))
                       ELSE session[2]>>
         IN  ImportedRows(Tail(rows), Tail(new_ids), after)

import_maintenance(rows, new_ids, commit_ok) ==
    LET req == [handler |-> "import_maintenance"]
        session == ImportedRows(rows, new_ids, <<maintenance, fees>>)
    IN  /\ Len(new_ids) = Len(rows)
        /\ \A i \in DOMAIN new_ids :
              /\ new_ids[i] \notin DOMAIN maintenance
              /\ \A j \in DOMAIN new_ids : new_ids[i] = new_ids[j] => i = j
        /\ UNCHANGED <<vehicles, inspections, asset_logs, today, disposals>>
        /\ IF commit_ok
           THEN /\ Answer(req, 200)
                /\ maintenance' = session[1]
                /\ fees' = session[2]
           ELSE Answer(req, 500) /\ UNCHANGED <<maintenance, fees>>

-----------------------------------------------------------------------------
(* Asset custody log.                                                      *)

(* f"__asset_type_{log.asset_type.value}__"                                *)
AssetTypePlaceholder ==
    [t \in AssetType |->
        CASE t = "key"     -> "__asset_type_key__"
          [] t = "dashcam" -> "__asset_type_dashcam__"
          [] t = "etag"    -> "__asset_type_etag__"
          [] t = "other"   -> "__asset_type_other__"]

(* Mutant of asset_key: only a null description gets the placeholder.      *)
asset_key_NullOnly(log) ==
    <<log.asset_type,
      IF log.description # None THEN Val(log.description)
      ELSE AssetTypePlaceholder[log.asset_type]>>

(* asset_key = (log.asset_type, log.description or placeholder)            *)
asset_key(log) ==
    <<log.asset_type,
      IF TruthyStr(log.description) THEN Val(log.description)
      ELSE AssetTypePlaceholder[log.asset_type]>>

(* Python's order of the strings the sort key is made of, as ranks:        *)
(* str comparison is by code point.                                        *)
StatusOrder == <<"assigned", "disposed", "lost", "returned">>

AssetTypeOrder == <<"dashcam", "etag", "key", "other">>

DescriptionOrder == <<"", "main", "spare">>

Rank(order, x) == CHOOSE i \in DOMAIN order : order[i] = x

(* Mutant of current_assets_key: the asset type before the status.         *)
current_assets_key_TypeFirst(x) ==
    LET d == IF TruthyStr(x.description) THEN Val(x.description) ELSE ""
    IN  (Rank(AssetTypeOrder, x.asset_type) * (Len(StatusOrder) + 1)
            + Rank(StatusOrder, x.status)) * (Len(DescriptionOrder) + 1)
        + Rank(DescriptionOrder, d)

(* The sort key (x.status.value, x.asset_type.value, x.description or "")  *)
(* as one number with the tuple's order.                                   *)
current_assets_key(x) ==
    LET d == IF TruthyStr(x.description) THEN Val(x.description) ELSE ""
    IN  (Rank(StatusOrder, x.status) * (Len(AssetTypeOrder) + 1)
            + Rank(AssetTypeOrder, x.asset_type)) * (Len(DescriptionOrder) + 1)
        + Rank(DescriptionOrder, d)

(* A dict whose assignment to an existing key is ignored.                  *)
DictPut_KeepFirst(map, key, log) ==
    IF \E i \in DOMAIN map : map[i][1] = key
    THEN map
    ELSE Append(map, <<key, log>>)

(* latest_asset_map[asset_key] = log on a dict kept as <<key, log>> pairs  *)
(* in insertion order: an existing key keeps its place.                    *)
DictPut(map, key, log) ==
    IF \E i \in DOMAIN map : map[i][1] = key
    THEN [i \in DOMAIN map |-> IF map[i][1] = key THEN <<key, log>> ELSE map[i]]
    ELSE Append(map, <<key, log>>)

(* for log in reversed(asset_logs): latest_asset_map[asset_key] = log      *)
RECURSIVE latest_asset_map(_)
latest_asset_map(logs) ==
    IF logs = <<>> THEN <<>>
    ELSE DictPut(latest_asset_map(Tail(logs)), asset_key(Head(logs)), Head(logs))

(* A filter that lets lost assets through.                                 *)
IsHeld_WithLost(log) == log.status \in {"assigned", "returned", "lost"}

(* if log.status in [AssetStatus.assigned, AssetStatus.returned]           *)
IsHeld(log) == log.status \in {"assigned", "returned"}

(* Lines 1526-1548: the current holdings of the rows in query order.       *)
current_assets(logs) ==
    LET held == SelectSeq(Items(latest_asset_map(logs)), IsHeld)
    IN  Items(StableSort([i \in DOMAIN held |-> <<current_assets_key(held[i]), held[i]>>]))

(* The rows of vehicle v, as a bag.                                        *)
LogsOf(v) ==
    LET rows == {r \in BagToSet(asset_logs) : r.vehicle_id = v}
    IN  [r \in rows |-> asset_logs[r]]

(* The orders in which order_by(desc(log_date)) may return the rows of     *)
(* bag B: the database decides among equal dates.                          *)
DescByLogDate(B) ==
    {o \in [1..BagCardinality(B) -> BagToSet(B)] :
        /\ \A r \in BagToSet(B) : Cardinality({i \in DOMAIN o : o[i] = r}) = B[r]
        /\ \A i, j \in DOMAIN o : i < j => o[i].log_date >= o[j].log_date}

(* GET /vehicle/{vehicle_id}/asset-log-list                                *)
get_asset_log_list(vehicle_id, rows) ==
    /\ rows \in DescByLogDate(LogsOf(vehicle_id))
    /\ request' = [handler |-> "get_asset_log_list", vehicle_id |-> vehicle_id]
    /\ response' = [status_code |-> 200,
                    asset_logs |-> rows,
                    current_assets |-> current_assets(rows),
                    vehicle_id |-> vehicle_id]
    /\ locals' = <<>>
    /\ maint_locals' = <<>>
    /\ UNCHANGED <<vehicles, inspections, maintenance, fees, asset_logs, today, disposals>>

(* Lines 1614-1625: the row after the assignments from the form.           *)
AssetLogRow(vehicle_id, form) ==
    [vehicle_id |-> vehicle_id,
     asset_type |-> form.asset_type,
     description |-> form.description,
     status |-> form.status,
     log_date |-> form.log_date]

(* POST /asset-log/new, /asset-log/{log_id}/edit: log is the row log_id    *)
(* names, None for a new one.                                              *)
create_or_update_asset_log(log, form, commit_ok) ==
    LET req == [handler |-> "create_or_update_asset_log"]
        vehicle_id == IF log # None THEN Val(log).vehicle_id ELSE form.vehicle_id
        row == AssetLogRow(vehicle_id, form)
        \* vehicle_asset_logs.vehicle_id references vehicles.id
        fk == vehicle_id \in DOMAIN vehicles
        others == IF log # None THEN asset_logs (-) SetToBag({Val(log)}) ELSE asset_logs
    IN  /\ UNCHANGED <<vehicles, inspections, maintenance, fees, today, disposals>>
        /\ IF log # None /\ ~BagIn(Val(log), asset_logs)
           THEN Answer(req, 404) /\ UNCHANGED asset_logs
           ELSE IF commit_ok /\ fk
           THEN Answer(req, 200) /\ asset_logs' = others (+) SetToBag({row})
           ELSE Answer(req, 500) /\ UNCHANGED asset_logs

(* DELETE /asset-log/{log_id}/delete                                       *)
delete_asset_log(log, commit_ok) ==
    LET req == [handler |-> "delete_asset_log"]
    IN  /\ UNCHANGED <<vehicles, inspections, maintenance, fees, today, disposals>>
        /\ IF ~BagIn(log, asset_logs)
           THEN Answer(req, 200) /\ UNCHANGED asset_logs
           ELSE IF commit_ok
           THEN Answer(req, 200) /\ asset_logs' = asset_logs (-) SetToBag({log})
           ELSE Answer(req, 400) /\ UNCHANGED asset_logs

-----------------------------------------------------------------------------
(* Disposal of a vehicle.                                                  *)

(* select(Disposal).where(Disposal.vehicle_id == vehicle_id)               *)
DisposalsOf(vehicle_id) ==
    {d \in DOMAIN disposals : disposals[d].vehicle_id = vehicle_id}

(* What db.scalar(stmt) may return: the first row of the result, None when *)
(* there is none.                                                          *)
ScalarDisposal(vehicle_id) ==
    IF DisposalsOf(vehicle_id) = {} THEN {None}
    ELSE {Some(d) : d \in DisposalsOf(vehicle_id)}

(* GET /vehicle/{vehicle_id}/disposal-form                                 *)
get_disposal_form(vehicle_id, disposal) ==
    /\ disposal \in ScalarDisposal(vehicle_id)
    /\ request' = [handler |-> "get_disposal_form", vehicle_id |-> vehicle_id]
    /\ response' = [status_code |-> 200,
                    disposal |-> IF disposal = None THEN None
                                 ELSE Some(disposals[Val(disposal)]),
                    vehicle_id |-> vehicle_id]
    /\ locals' = <<>>
    /\ maint_locals' = <<>>
    /\ UNCHANGED <<vehicles, inspections, maintenance, fees, asset_logs, disposals, today>>

(* Lines 1724-1728: the row after the assignments from the form.           *)
DisposalRow(vehicle_id, form) ==
    [vehicle_id |-> vehicle_id,
     user_id |-> ToUuid(form.user_id),
     disposed_on |-> form.disposed_on,
     notification_date |-> form.notification_date,
     final_mileage |-> form.final_mileage,
     reason |-> form.reason]

(* Mutant of create_or_update_disposal: a record is added even when the    *)
(* vehicle has one.                                                        *)
create_or_update_disposal_AlwaysNew(vehicle_id, disposal, new_id, form, commit_ok) ==
    LET req == [handler |-> "create_or_update_disposal", vehicle_id |-> vehicle_id]
        row == DisposalRow(vehicle_id, form)
    IN  /\ disposal \in ScalarDisposal(vehicle_id)
        /\ new_id \notin DOMAIN disposals
        /\ UNCHANGED <<inspections, maintenance, fees, asset_logs, today>>
        /\ IF vehicle_id \notin DOMAIN vehicles
           THEN Answer(req, 404) /\ UNCHANGED <<vehicles, disposals>>
           ELSE IF commit_ok /\ row.disposed_on # None
           THEN /\ Answer(req, 200)
                /\ disposals' = (new_id :> row) @@ disposals
                /\ vehicles' = [vehicles EXCEPT ![vehicle_id].status = "retired"]
           ELSE Answer(req, 500) /\ UNCHANGED <<vehicles, disposals>>

(* POST /vehicle/{vehicle_id}/disposal-form: disposal is what db.scalar    *)
(* returned, new_id the id of a record it adds.                            *)
create_or_update_disposal(vehicle_id, disposal, new_id, form, commit_ok) ==
    LET req == [handler |-> "create_or_update_disposal", vehicle_id |-> vehicle_id]
        id == IF disposal # None THEN Val(disposal) ELSE new_id
        row == DisposalRow(vehicle_id, form)
        \* disposals.disposed_on is not nullable
        not_null == row.disposed_on # None
    IN  /\ disposal \in ScalarDisposal(vehicle_id)
        /\ disposal = None => new_id \notin DOMAIN disposals
        /\ UNCHANGED <<inspections, maintenance, fees, asset_logs, today>>
        /\ IF vehicle_id \notin DOMAIN vehicles
           THEN Answer(req, 404) /\ UNCHANGED <<vehicles, disposals>>
           ELSE IF commit_ok /\ not_null
           THEN /\ Answer(req, 200)
                /\ disposals' = (id :> row) @@ disposals
                /\ vehicles' = [vehicles EXCEPT ![vehicle_id].status = "retired"]
           ELSE Answer(req, 500) /\ UNCHANGED <<vehicles, disposals>>

(* DELETE /disposal/{disp_id}/delete                                       *)
delete_disposal(disp_id, commit_ok) ==
    LET req == [handler |-> "delete_disposal", disp_id |-> disp_id]
    IN  /\ UNCHANGED <<inspections, maintenance, fees, asset_logs, today>>
        /\ IF disp_id \notin DOMAIN disposals
           THEN Answer(req, 200) /\ UNCHANGED <<vehicles, disposals>>
           ELSE IF commit_ok
           THEN /\ Answer(req, 200)
                /\ vehicles' =
                      IF disposals[disp_id].vehicle_id \in DOMAIN vehicles
                      THEN [vehicles EXCEPT ![disposals[disp_id].vehicle_id].status = "active"]
                      ELSE vehicles
                /\ disposals' = [d \in DOMAIN disposals \ {disp_id} |-> disposals[d]]
           ELSE Answer(req, 400) /\ UNCHANGED <<vehicles, disposals>>

-----------------------------------------------------------------------------

(* The state after start-up: Base.metadata.create_all on an empty          *)
(* database, no request handled yet.                                       *)

FirstDay == MkDate(2024, 2, 1)

Init ==
    /\ vehicles = <<>>
    /\ inspections = <<>>
    /\ maintenance = <<>>
    /\ fees = <<>>
    /\ asset_logs = EmptyBag
    /\ disposals = <<>>
    /\ today = FirstDay
    /\ request = [handler |-> "startup"]
    /\ response = [status_code |-> 200]
    /\ locals = <<>>
    /\ maint_locals = <<>>

-----------------------------------------------------------------------------
(* Bounds and input sets.                                                  *)

MaxInspections == 2

MaxFees == 2

MaxAssetLogs == 3

VehicleIds == {1}

(* Manufacture dates: a car that turns 10 on 2025-01-01, a leap-day        *)
(* vehicle that turns 5 on 2025-02-28, a young one.                        *)
ManufactureDates == {MkDate(2015, 1, 1), MkDate(2020, 2, 29), MkDate(2023, 1, 1)}

(* The days on which requests arrive.                                      *)
Days ==
    {FirstDay, MkDate(2024, 12, 31), MkDate(2025, 1, 1), MkDate(2025, 2, 27),
     MkDate(2025, 2, 28), MkDate(2025, 5, 31), MkDate(2025, 6, 1)}

InspectedOnDates == {MkDate(2023, 12, 1), MkDate(2024, 7, 1)}

BaseVehicleForm ==
    [plate_no |-> "ABC-1234", vehicle_type |-> "car", status |-> "active",
     manufacture_date |-> Some(MkDate(2015, 1, 1))]

VehicleForms ==
    [plate_no : {"ABC-1234"}, vehicle_type : VehicleType, status : VehicleStatus,
     manufacture_date : {None} \cup {Some(d) : d \in ManufactureDates}]

(* Vehicle edit forms that change the status only.                         *)
StatusEdits(id) ==
    IF id \notin DOMAIN vehicles THEN {BaseVehicleForm}
    ELSE {[vehicles[id] EXCEPT !.status = st] : st \in VehicleStatus}

BaseInspectionForm ==
    [vehicle_id |-> Some(1), kind |-> "periodic", notification_date |-> None,
     inspected_on |-> None, user_id |-> None, handler_id |-> None,
     amount |-> None, is_reconciled |-> FALSE, notes |-> None]

(* Inspection forms of the dashboard: the completion date varies.          *)
InspectionDateForms ==
    {[BaseInspectionForm EXCEPT !.inspected_on = d] :
        d \in {None} \cup {Some(x) : x \in InspectedOnDates}}

(* The requests of the inspection dashboard.                               *)
NextInspection ==
    \/ \E new \in VehicleIds, form \in VehicleForms, ok \in BOOLEAN :
          create_or_update_vehicle(None, new, form, ok)
    \/ \E id \in VehicleIds, ok \in BOOLEAN : \E form \in StatusEdits(id) :
          create_or_update_vehicle(Some(id), id, form, ok)
    \/ \E new \in 1..MaxInspections, form \in InspectionDateForms, ok \in BOOLEAN :
          create_or_update_inspection(None, new, form, ok)
    \/ \E id \in 1..MaxInspections, form \in InspectionDateForms, ok \in BOOLEAN :
          create_or_update_inspection(Some(id), id, form, ok)
    \/ \E t \in Days, order \in Orderings(active_vehicles), pick \in LastMaintChoices :
          get_dashboard(t, order, pick)

SpecInspection == Init /\ [][NextInspection]_vars

-----------------------------------------------------------------------------
(* The requests of fee generation: one vehicle, one maintenance and one    *)
(* inspection record, written again and again with forms that differ from  *)
(* a base form in one respect.                                             *)

FeeRecordIds == {1}

BaseMaintenanceForm ==
    [vehicle_id |-> Some(1), category |-> "maintenance", performed_on |-> None,
     user_id |-> None, handler_id |-> None, odometer_km |-> None,
     amount |-> Some("1500"), is_reconciled |-> FALSE, notes |-> None]

AmountTexts == {None, Some(""), Some("0"), Some("-5"), Some("300"), Some("abc")}

MaintenanceFeeForms ==
    {BaseMaintenanceForm}
    \cup {[BaseMaintenanceForm EXCEPT !.amount = a] : a \in AmountTexts}
    \cup {[BaseMaintenanceForm EXCEPT !.category = c] : c \in {"repair", "carwash"}}
    \cup {[BaseMaintenanceForm EXCEPT !.handler_id = Some("e1"), !.user_id = Some("e2")],
          [BaseMaintenanceForm EXCEPT !.user_id = Some("e2")],
          [BaseMaintenanceForm EXCEPT !.is_reconciled = TRUE],
          [BaseMaintenanceForm EXCEPT !.notes = Some("oil change")],
          [BaseMaintenanceForm EXCEPT !.vehicle_id = None]}

InspectionFeeForms ==
    {[BaseInspectionForm EXCEPT !.amount = a] :
        a \in {None, Some("0"), Some("300"), Some("1500")}}
    \cup {[BaseInspectionForm EXCEPT !.amount = Some("1500"), !.kind = "emission"],
          [BaseInspectionForm EXCEPT !.amount = Some("1500"),
                                     !.handler_id = Some("e1"), !.user_id = Some("e2")],
          [BaseInspectionForm EXCEPT !.amount = Some("1500"), !.user_id = Some("e2")],
          [BaseInspectionForm EXCEPT !.amount = Some("1500"), !.is_reconciled = TRUE],
          [BaseInspectionForm EXCEPT !.amount = Some("1500"), !.notes = Some("passed")]}

(* The fees table is bounded: a write that would add a fee beyond the      *)
(* bound is not taken.                                                     *)
FeeRoom(form) ==
    (~DecimalRaises(form.amount) /\ AmountTriggersFee(ToDecimal(form.amount)))
        => Len(fees) < MaxFees

NextFees ==
    \/ \E new \in VehicleIds, ok \in BOOLEAN :
          create_or_update_vehicle(None, new, BaseVehicleForm, ok)
    \/ \E new \in FeeRecordIds, form \in MaintenanceFeeForms, ok \in BOOLEAN :
          FeeRoom(form) /\ create_or_update_maintenance(None, new, form, ok)
    \/ \E id \in FeeRecordIds, form \in MaintenanceFeeForms, ok \in BOOLEAN :
          FeeRoom(form) /\ create_or_update_maintenance(Some(id), id, form, ok)
    \/ \E new \in FeeRecordIds, form \in InspectionFeeForms, ok \in BOOLEAN :
          FeeRoom(form) /\ create_or_update_inspection(None, new, form, ok)
    \/ \E id \in FeeRecordIds, form \in InspectionFeeForms, ok \in BOOLEAN :
          FeeRoom(form) /\ create_or_update_inspection(Some(id), id, form, ok)

SpecFees == Init /\ [][NextFees]_vars

-----------------------------------------------------------------------------
(* The requests that decide the payee of a fee: records written by the two *)
(* forms and by the import, with and without a handler and a user.         *)

PayeeMaintenanceForms ==
    {[BaseMaintenanceForm EXCEPT !.handler_id = h, !.user_id = u] :
        h \in {None, Some(""), Some("e1")}, u \in {None, Some("e2")}}

PayeeInspectionForms ==
    {[BaseInspectionForm EXCEPT !.amount = Some("1500"), !.handler_id = h, !.user_id = u] :
        h \in {None, Some(""), Some("e1")}, u \in {None, Some("e2")}}

BaseImportRow ==
    [vehicle_plate_no |-> Some("ABC-1234"), user_name |-> None, handler_name |-> None,
     category |-> Some("repair"), performed_on |-> None, odometer_km |-> None,
     amount |-> Some(150000), is_reconciled |-> None, notes |-> None]

(* Rows with a handler and a user, a handler nobody is named as, neither,  *)
(* no amount, and a plate no vehicle has.                                  *)
ImportRows ==
    {BaseImportRow,
     [BaseImportRow EXCEPT !.handler_name = Some("e1"), !.user_name = Some("e2")],
     [BaseImportRow EXCEPT !.handler_name = Some("nobody"), !.user_name = Some("e2")],
     [BaseImportRow EXCEPT !.amount = None],
     [BaseImportRow EXCEPT !.vehicle_plate_no = Some("XYZ-0000")]}

(* The files imported: one row each.                                       *)
ImportFiles == {<<row>> : row \in ImportRows}

ImportRoom(rows) ==
    Len(fees) + Cardinality({i \in DOMAIN rows : rows[i].amount # None}) <= MaxFees

NextPayee ==
    \/ \E new \in VehicleIds, ok \in BOOLEAN :
          create_or_update_vehicle(None, new, BaseVehicleForm, ok)
    \/ \E new \in FeeRecordIds, form \in PayeeMaintenanceForms, ok \in BOOLEAN :
          FeeRoom(form) /\ create_or_update_maintenance(None, new, form, ok)
    \/ \E id \in FeeRecordIds, form \in PayeeMaintenanceForms, ok \in BOOLEAN :
          FeeRoom(form) /\ create_or_update_maintenance(Some(id), id, form, ok)
    \/ \E new \in FeeRecordIds, form \in PayeeInspectionForms, ok \in BOOLEAN :
          FeeRoom(form) /\ create_or_update_inspection(None, new, form, ok)
    \/ \E id \in FeeRecordIds, form \in PayeeInspectionForms, ok \in BOOLEAN :
          FeeRoom(form) /\ create_or_update_inspection(Some(id), id, form, ok)
    \/ \E rows \in ImportFiles, new \in FeeRecordIds, ok \in BOOLEAN :
          ImportRoom(rows) /\ import_maintenance(rows, <<new>>, ok)

SpecPayee == Init /\ [][NextPayee]_vars

-----------------------------------------------------------------------------
(* The requests that decide the category of a fee: maintenance records of  *)
(* every category and inspection records of every kind, with an amount.    *)

CategoryMaintenanceForms ==
    {[BaseMaintenanceForm EXCEPT !.category = c] : c \in MaintenanceCategory \ {"carwash"}}
    \cup {[BaseMaintenanceForm EXCEPT !.category = "carwash", !.amount = Some("0.01")],
          [BaseMaintenanceForm EXCEPT !.category = "repair", !.handler_id = Some("e1")]}

KindInspectionForms ==
    {[BaseInspectionForm EXCEPT !.kind = k, !.amount = Some("300")] : k \in InspectionKind}

NextFeeType ==
    \/ \E new \in VehicleIds, ok \in BOOLEAN :
          create_or_update_vehicle(None, new, BaseVehicleForm, ok)
    \/ \E new \in FeeRecordIds, form \in CategoryMaintenanceForms, ok \in BOOLEAN :
          FeeRoom(form) /\ create_or_update_maintenance(None, new, form, ok)
    \/ \E id \in FeeRecordIds, form \in CategoryMaintenanceForms, ok \in BOOLEAN :
          FeeRoom(form) /\ create_or_update_maintenance(Some(id), id, form, ok)
    \/ \E new \in FeeRecordIds, form \in KindInspectionForms, ok \in BOOLEAN :
          FeeRoom(form) /\ create_or_update_inspection(None, new, form, ok)
    \/ \E id \in FeeRecordIds, form \in KindInspectionForms, ok \in BOOLEAN :
          FeeRoom(form) /\ create_or_update_inspection(Some(id), id, form, ok)

SpecFeeType == Init /\ [][NextFeeType]_vars

-----------------------------------------------------------------------------

(* The requests of the maintenance dashboard of a fleet of two vehicles:   *)
(* a car of 2015 and a van that has no manufacture date or is 180 days old *)
(* on the first day.  The database does not fail here.                     *)

MaxMaintenance == 2

FleetIds == {1, 2}

FleetVehicleForms(id) ==
    IF id = 1 THEN {BaseVehicleForm}
    ELSE {[plate_no |-> "XYZ-5678", vehicle_type |-> "van", status |-> "active",
           manufacture_date |-> d] :
             d \in {None, Some(MkDate(2023, 8, 5))}}

(* The first day, the day after, and a day five months later.              *)
FleetDays == {FirstDay, MkDate(2024, 2, 2), MkDate(2024, 7, 15)}

(* Routine maintenance on the last day of August, in January, or without a *)
(* date; a repair in January.                                              *)
FleetMaintenanceForms ==
    {[BaseMaintenanceForm EXCEPT !.vehicle_id = Some(v), !.amount = None,
                                 !.category = k[1], !.performed_on = k[2]] :
        v \in FleetIds,
        k \in {<<"maintenance", Some(MkDate(2023, 8, 31))>>,
               <<"maintenance", Some(MkDate(2024, 1, 15))>>,
               <<"maintenance", None>>,
               <<"repair", Some(MkDate(2024, 1, 15))>>}}

NextFleet ==
    \/ \E new \in FleetIds : \E form \in FleetVehicleForms(new) :
          create_or_update_vehicle(None, new, form, TRUE)
    \/ \E new \in 1..MaxMaintenance, form \in FleetMaintenanceForms :
          create_or_update_maintenance(None, new, form, TRUE)
    \/ \E id \in 1..MaxMaintenance, form \in FleetMaintenanceForms :
          \* an edit keeps the record's vehicle, whatever the form names
          /\ form.vehicle_id = Some(1)
          /\ create_or_update_maintenance(Some(id), id, form, TRUE)
    \/ \E id \in 1..MaxMaintenance : delete_maintenance(id, TRUE)
    \/ \E t \in FleetDays, order \in Orderings(active_vehicles), pick \in LastMaintChoices :
          get_dashboard(t, order, pick)

SpecFleet == Init /\ [][NextFleet]_vars

-----------------------------------------------------------------------------

(* The requests of disposal: two vehicles, disposed of, restored and       *)
(* edited, and the dashboard.                                              *)

MaxDisposals == 2

DisposalDates == {MkDate(2024, 1, 31)}

(* Disposal forms: with the required date, with a reason, and with the     *)
(* date left empty.                                                        *)
DisposalForms ==
    [user_id : {None}, disposed_on : {Some(d) : d \in DisposalDates},
     notification_date : {None}, final_mileage : {None},
     reason : {None, Some("scrapped")}]
    \cup [user_id : {None}, disposed_on : {None}, notification_date : {None},
          final_mileage : {None}, reason : {None}]

NextDisposal ==
    \/ \E new \in FleetIds, ok \in BOOLEAN : \E form \in FleetVehicleForms(new) :
          create_or_update_vehicle(None, new, form, ok)
    \/ \E id \in FleetIds, ok \in BOOLEAN : \E form \in StatusEdits(id) :
          create_or_update_vehicle(Some(id), id, form, ok)
    \/ \E v \in FleetIds : \E disposal \in ScalarDisposal(v) :
          get_disposal_form(v, disposal)
    \/ \E v \in FleetIds, new \in 1..MaxDisposals, form \in DisposalForms, ok \in BOOLEAN :
          \E disposal \in ScalarDisposal(v) :
              create_or_update_disposal(v, disposal, new, form, ok)
    \/ \E d \in 1..MaxDisposals, ok \in BOOLEAN : delete_disposal(d, ok)
    \/ \E t \in {FirstDay}, order \in Orderings(active_vehicles), pick \in LastMaintChoices :
          get_dashboard(t, order, pick)

SpecDisposal == Init /\ [][NextDisposal]_vars

-----------------------------------------------------------------------------

(* The requests of the asset log of one vehicle.                           *)

LogDates == {MkDate(2024, 1, 1), MkDate(2024, 6, 1)}

(* Key events, undescribed or described, in every status; key events with *)
(* an empty description; undescribed dashcam events that are held.         *)
AssetLogForms ==
    [vehicle_id : VehicleIds, asset_type : {"key"},
     description : {None, Some("spare")}, status : AssetStatus, log_date : LogDates]
    \cup [vehicle_id : VehicleIds, asset_type : {"key"},
          description : {Some("")}, status : {"assigned"}, log_date : LogDates]
    \cup [vehicle_id : VehicleIds, asset_type : {"dashcam"},
          description : {None}, status : {"assigned", "returned"}, log_date : LogDates]

(* Edit forms that change the status of a row only.                        *)
StatusChanges(log) ==
    {f \in AssetLogForms : [f EXCEPT !.status = log.status] = log}

NextAssets ==
    \/ \E new \in VehicleIds, ok \in BOOLEAN :
          create_or_update_vehicle(None, new, BaseVehicleForm, ok)
    \/ \E form \in AssetLogForms, ok \in BOOLEAN :
          /\ BagCardinality(asset_logs) < MaxAssetLogs
          /\ create_or_update_asset_log(None, form, ok)
    \/ \E log \in BagToSet(asset_logs), ok \in BOOLEAN : \E form \in StatusChanges(log) :
          create_or_update_asset_log(Some(log), form, ok)
    \/ \E log \in BagToSet(asset_logs), ok \in BOOLEAN : delete_asset_log(log, ok)
    \/ \E v \in VehicleIds : \E rows \in DescByLogDate(LogsOf(v)) :
          get_asset_log_list(v, rows)

SpecAssets == Init /\ [][NextAssets]_vars

-----------------------------------------------------------------------------
(* Properties of the inspection dashboard, stated on the state right after *)
(* a dashboard request: the tables and today are those it computed from.   *)

DashboardAnswered == request.handler = "get_dashboard"

(* Whole years elapsed since the manufacture date: the anniversaries       *)
(* reached by day t.                                                       *)
AgeInYears(mfg, t) == Cardinality({n \in 1..30 : AddYears(mfg, n) <= t})

(* The completion dates of the inspections of vehicle v.                   *)
CompletedOn(v) ==
    {Val(inspections[i].inspected_on) :
        i \in {j \in DOMAIN inspections : inspections[j].vehicle_id = v
                                          /\ inspections[j].inspected_on # None}}

(* d is the most recent completed inspection of vehicle v.                 *)
IsLastInspection(v, d) == d \in CompletedOn(v) /\ \A e \in CompletedOn(v) : e <= d

(* Active vehicles with a manufacture date and a type among types.         *)
Subject(types) ==
    {v \in DOMAIN vehicles : /\ vehicles[v].status = "active"
                             /\ vehicles[v].manufacture_date # None
                             /\ vehicles[v].vehicle_type \in types}

(* The due date the loop computed for v is date d after last inspections,  *)
(* or first when no inspection was completed.                              *)
DueIs(v, months, first) ==
    /\ locals[v] # None
    /\ Val(locals[v]).next_due_date # None
    /\ \A d \in CompletedOn(v) :
          IsLastInspection(v, d) => Val(Val(locals[v]).next_due_date) = AddMonths(d, months)
    /\ CompletedOn(v) = {} => Val(Val(locals[v]).next_due_date) = first

Cadence(v) == Val(locals[v]).status

(* C6: an active car with a manufacture date has no due date below 5       *)
(* years of age; from 5 to below 10 the cadence is annual and the due date *)
(* is the last completed inspection + 1 year, or manufacture + 5 years     *)
(* without one; from 10 on it is semiannual, last + 6 months or            *)
(* manufacture + 10 years.                                                 *)
C6_CarRule ==
    DashboardAnswered =>
        \A v \in Subject({"car"}) :
            LET mfg == Val(vehicles[v].manufacture_date)
                age == AgeInYears(mfg, today)
            IN  /\ age < 5 => locals[v] # None /\ Val(locals[v]).next_due_date = None
                /\ (5 <= age /\ age < 10) =>
                      Cadence(v) = "annual" /\ DueIs(v, 12, AddYears(mfg, 5))
                /\ age >= 10 =>
                      Cadence(v) = "semiannual" /\ DueIs(v, 6, AddYears(mfg, 10))

(* A car on its 10th anniversary with a completed inspection: semiannual.  *)
C6_Witness ==
    /\ DashboardAnswered
    /\ \E v \in Subject({"car"}) :
          /\ AddYears(Val(vehicles[v].manufacture_date), 10) = today
          /\ CompletedOn(v) # {}
          /\ Cadence(v) = "semiannual"

(* C7: an active van or truck with a manufacture date is never exempt:     *)
(* below 5 years the cadence is annual, due last + 1 year or manufacture   *)
(* + 1 year; from 5 on semiannual, last + 6 months or manufacture + 5      *)
(* years.                                                                  *)
C7_VanTruckRule ==
    DashboardAnswered =>
        \A v \in Subject({"van", "truck"}) :
            LET mfg == Val(vehicles[v].manufacture_date)
                age == AgeInYears(mfg, today)
            IN  /\ age < 5 => Cadence(v) = "annual" /\ DueIs(v, 12, AddYears(mfg, 1))
                /\ age >= 5 => Cadence(v) = "semiannual" /\ DueIs(v, 6, AddYears(mfg, 5))

(* The van of 2023-01-01 seen on 2024-02-01 without inspections: due       *)
(* 2024-01-01 and overdue.                                                 *)
C7_Witness ==
    /\ DashboardAnswered
    /\ today = MkDate(2024, 2, 1)
    /\ \E v \in Subject({"van"}) :
          /\ vehicles[v].manufacture_date = Some(MkDate(2023, 1, 1))
          /\ CompletedOn(v) = {}
          /\ \E i \in DOMAIN response.inspection_reminders :
                /\ response.inspection_reminders[i].vehicle = v
                /\ response.inspection_reminders[i].next_due_date = Some(MkDate(2024, 1, 1))
                /\ response.inspection_reminders[i].is_overdue

(* C8: an active motorcycle or electric scooter with a manufacture date    *)
(* has no due date below 5 years; from 5 on, at every age, the cadence is  *)
(* annual, due last + 1 year or manufacture + 5 years.                     *)
C8_MotorcycleRule ==
    DashboardAnswered =>
        \A v \in Subject({"motorcycle", "ev_scooter"}) :
            LET mfg == Val(vehicles[v].manufacture_date)
                age == AgeInYears(mfg, today)
            IN  /\ age < 5 => locals[v] # None /\ Val(locals[v]).next_due_date = None
                /\ age >= 5 => Cadence(v) = "annual" /\ DueIs(v, 12, AddYears(mfg, 5))

(* A motorcycle of 10 years or more with a completed inspection.           *)
C8_Witness ==
    /\ DashboardAnswered
    /\ \E v \in Subject({"motorcycle"}) :
          /\ AgeInYears(Val(vehicles[v].manufacture_date), today) >= 10
          /\ CompletedOn(v) # {}
          /\ Cadence(v) = "annual"

(* C9 as stated: every vehicle type of 10 years or more with a last        *)
(* completed inspection on D is due on D + 6 months.                       *)
C9_AllTypesSemiannual ==
    DashboardAnswered =>
        \A v \in Subject(VehicleType) :
            AgeInYears(Val(vehicles[v].manufacture_date), today) >= 10 =>
                \A d \in CompletedOn(v) :
                    IsLastInspection(v, d) =>
                        Val(locals[v]).next_due_date = Some(AddMonths(d, 6))

(* C9 amended: a car, van or truck of 10 years or more with a last         *)
(* completed inspection on D is due on D + 6 months, a motorcycle or       *)
(* electric scooter on D + 1 year; earlier inspections do not count.       *)
C9_SemiannualByType ==
    DashboardAnswered =>
        \A v \in Subject(VehicleType) :
            AgeInYears(Val(vehicles[v].manufacture_date), today) >= 10 =>
                \A d \in CompletedOn(v) :
                    IsLastInspection(v, d) =>
                        Val(locals[v]).next_due_date =
                            IF vehicles[v].vehicle_type \in {"car", "van", "truck"}
                            THEN Some(AddMonths(d, 6))
                            ELSE Some(AddYears(d, 1))

(* A truck of 10 years or more with two completed inspections on           *)
(* different days, due 6 months after the later one.                       *)
C9_Witness ==
    /\ DashboardAnswered
    /\ \E v \in Subject({"truck"}) :
          /\ AgeInYears(Val(vehicles[v].manufacture_date), today) >= 10
          /\ Cardinality(CompletedOn(v)) >= 2
          /\ Val(locals[v]).next_due_date = Some(AddMonths(Max(CompletedOn(v)), 6))

(* The entries of the inspection reminder list for vehicle v.              *)
InspectionEntries(v) ==
    {i \in DOMAIN response.inspection_reminders :
        response.inspection_reminders[i].vehicle = v}

(* C10: a vehicle is in the inspection reminder list iff a due date was    *)
(* computed for it and the due date is not after today + 1 month; its      *)
(* is_overdue flag is set iff the due date is before today.                *)
C10_ReminderWindow ==
    DashboardAnswered =>
        \A v \in DOMAIN vehicles :
            LET computed == /\ v \in DOMAIN locals
                            /\ locals[v] # None
                            /\ Val(locals[v]).next_due_date # None
                due == Val(Val(locals[v]).next_due_date)
            IN  /\ InspectionEntries(v) # {} <=> (computed /\ due <= AddMonths(today, 1))
                /\ \A i \in InspectionEntries(v) :
                      /\ response.inspection_reminders[i].next_due_date = Some(due)
                      /\ response.inspection_reminders[i].is_overdue <=> due < today

(* A vehicle due exactly today: listed and not overdue.                    *)
C10_Witness ==
    /\ DashboardAnswered
    /\ \E i \in DOMAIN response.inspection_reminders :
          /\ response.inspection_reminders[i].next_due_date = Some(today)
          /\ ~response.inspection_reminders[i].is_overdue

-----------------------------------------------------------------------------
(* Properties of fee generation, stated on the steps of the write          *)
(* handlers: request' names the handler that took the step.                *)

MaintenanceWritten ==
    /\ request'.handler = "create_or_update_maintenance"
    /\ response'.status_code = 200

InspectionWritten ==
    /\ request'.handler = "create_or_update_inspection"
    /\ response'.status_code = 200

(* The row a successful write step saved.                                  *)
SavedMaintenance ==
    LET id == IF request'.maint_id # None THEN Val(request'.maint_id)
              ELSE CHOOSE i \in DOMAIN maintenance' : i \notin DOMAIN maintenance
    IN  maintenance'[id]

SavedInspection ==
    LET id == IF request'.insp_id # None THEN Val(request'.insp_id)
              ELSE CHOOSE i \in DOMAIN inspections' : i \notin DOMAIN inspections
    IN  inspections'[id]

Positive(amount) == amount # None /\ Val(amount) > 0

FeesAdded == Len(fees') - Len(fees)

(* C3: a successful create-or-update of a maintenance or inspection record *)
(* adds exactly one fee when the saved amount is present and above zero,   *)
(* and none when it is null, zero or negative.                             *)
C3_OneFeePerPositiveWrite ==
    [][/\ MaintenanceWritten =>
             FeesAdded = IF Positive(SavedMaintenance.amount) THEN 1 ELSE 0
       /\ InspectionWritten =>
             FeesAdded = IF Positive(SavedInspection.amount) THEN 1 ELSE 0]_vars

(* A maintenance record saved with a positive amount and the fee it made;  *)
(* an inspection record saved with amount zero and no fee.                 *)
C3_Witness ==
    /\ request.handler = "create_or_update_maintenance"
    /\ response.status_code = 200
    /\ maintenance[1].amount = Some(150000)
    /\ Len(fees) = 1
    /\ fees[1].amount = Some(150000)
    /\ 1 \in DOMAIN inspections
    /\ inspections[1].amount = Some(0)

MaintenanceEdited == MaintenanceWritten /\ request'.maint_id # None

InspectionEdited == InspectionWritten /\ request'.insp_id # None

(* C4 as stated: an edit adds a fee only when the record had no positive   *)
(* amount before and the edit gives it one; an edit of a record that had a *)
(* positive amount adds none.                                              *)
C4_FeeOnlyOnFirstAmount ==
    [][/\ (MaintenanceEdited /\ FeesAdded > 0) =>
             /\ ~Positive(maintenance[Val(request'.maint_id)].amount)
             /\ Positive(SavedMaintenance.amount)
       /\ (InspectionEdited /\ FeesAdded > 0) =>
             /\ ~Positive(inspections[Val(request'.insp_id)].amount)
             /\ Positive(SavedInspection.amount)]_vars

(* C4 amended: a successful edit adds exactly one fee whenever it saves a  *)
(* positive amount, whatever amount the record had before, and no fee      *)
(* otherwise.                                                              *)
C4_FeePerPositiveEdit ==
    [][/\ MaintenanceEdited =>
             (FeesAdded = 1 <=> Positive(SavedMaintenance.amount))
             /\ (FeesAdded = 0 <=> ~Positive(SavedMaintenance.amount))
       /\ InspectionEdited =>
             (FeesAdded = 1 <=> Positive(SavedInspection.amount))
             /\ (FeesAdded = 0 <=> ~Positive(SavedInspection.amount))]_vars

(* The one maintenance record made two fees: it was created and then       *)
(* edited, each time with a positive amount.                               *)
C4_Witness ==
    /\ request.handler = "create_or_update_maintenance"
    /\ request.maint_id # None
    /\ response.status_code = 200
    /\ DOMAIN inspections = {}
    /\ Len(fees) = 2
    /\ Positive(maintenance[1].amount)

(* C5: a create-or-update of a maintenance or inspection record leaves     *)
(* every fee that exists as it is: none is changed, none is removed.       *)
C5_ExistingFeesKept ==
    [][request'.handler \in {"create_or_update_maintenance", "create_or_update_inspection"}
          => /\ Len(fees') >= Len(fees)
             /\ \A i \in DOMAIN fees : fees'[i] = fees[i]]_vars

(* The record was edited to another amount and reconciled; the fee of its  *)
(* first write still has the first amount and is unpaid.                   *)
C5_Witness ==
    /\ request.handler = "create_or_update_maintenance"
    /\ request.maint_id # None
    /\ response.status_code = 200
    /\ Len(fees) = 2
    /\ fees[1].amount = Some(30000)
    /\ ~fees[1].is_paid
    /\ maintenance[1].is_reconciled
    /\ maintenance[1].amount = Some(150000)

-----------------------------------------------------------------------------
(* The asset reducer: what get_asset_log_list answered, against the         *)
(* custody events of the vehicle in the table.                              *)

AssetListAnswered == request.handler = "get_asset_log_list"

(* The custody events of the vehicle the last request named.               *)
History == {r \in BagToSet(asset_logs) : r.vehicle_id = request.vehicle_id}

Described(r) == r.description # None /\ r.description # Some("")

(* Two events have the same composite key: the same asset type and the     *)
(* same description, all undescribed events of a type counting as one.     *)
SameKey(a, b) ==
    /\ a.asset_type = b.asset_type
    /\ IF Described(a) \/ Described(b)
       THEN a.description = b.description
       ELSE TRUE

(* The events with the key of r that no event with that key is later than. *)
MostRecent(r) ==
    {s \in History :
        /\ SameKey(s, r)
        /\ \A u \in History : SameKey(u, r) => u.log_date <= s.log_date}

(* The key of r has an entry in the current-holdings list.                 *)
Appears(r) ==
    \E i \in DOMAIN response.current_assets : SameKey(response.current_assets[i], r)

(* The event with the key of r that comes first in the newest-first log    *)
(* of the answer.                                                          *)
FirstListed(r) ==
    LET rows == response.asset_logs
        i == CHOOSE k \in DOMAIN rows :
                /\ SameKey(rows[k], r)
                /\ \A j \in 1..(k - 1) : ~SameKey(rows[j], r)
    IN  rows[i]

(* C1: the current-holdings list of get_asset_log_list has at most one     *)
(* entry per composite key (asset_type, description or placeholder), and   *)
(* each entry is an event of the vehicle with the greatest log_date among  *)
(* all its events with that key.                                           *)
C1_OneLatestEntryPerKey ==
    AssetListAnswered =>
        LET cur == response.current_assets
        IN  /\ \A i, j \in DOMAIN cur : SameKey(cur[i], cur[j]) => i = j
            /\ \A i \in DOMAIN cur :
                  /\ cur[i] \in History
                  /\ \A r \in History : SameKey(r, cur[i]) => r.log_date <= cur[i].log_date

(* Three events, two of one key on different dates and one of another key: *)
(* the list has two entries and the entry of the first key is the later    *)
(* event.                                                                  *)
C1_Witness ==
    /\ AssetListAnswered
    /\ BagCardinality(asset_logs) = 3
    /\ Len(response.current_assets) = 2
    /\ \E i \in DOMAIN response.current_assets : \E r \in History :
          /\ SameKey(r, response.current_assets[i])
          /\ r.log_date < response.current_assets[i].log_date

(* C2: a key whose most recent event is lost or disposed never appears in  *)
(* the current-holdings list, whatever earlier events it has; a key        *)
(* appears iff its most recent event is assigned or returned. Among events *)
(* of one key on the same latest date, the most recent is the one the      *)
(* newest-first log of the answer lists first.                             *)
C2_KeyAppearsIffHeld ==
    AssetListAnswered =>
        \A r \in History :
            /\ (\A s \in MostRecent(r) : s.status \in {"lost", "disposed"}) => ~Appears(r)
            /\ (\A s \in MostRecent(r) : s.status \in {"assigned", "returned"}) => Appears(r)
            /\ Appears(r) => \E s \in MostRecent(r) : s.status \in {"assigned", "returned"}
            /\ FirstListed(r) \in MostRecent(r)
            /\ Appears(r) <=> FirstListed(r).status \in {"assigned", "returned"}

(* The spare key was assigned, returned and then lost: it is not a         *)
(* current holding.                                                        *)
C2_Witness ==
    /\ AssetListAnswered
    /\ BagCardinality(asset_logs) = 3
    /\ \A r \in History : r.asset_type = "key" /\ r.description = Some("spare")
    /\ \E r \in History : r.status = "assigned" /\ r.log_date = MkDate(2024, 1, 1)
    /\ \E r \in History : r.status = "returned" /\ r.log_date = MkDate(2024, 1, 1)
    /\ \E r \in History : r.status = "lost" /\ r.log_date = MkDate(2024, 6, 1)
    /\ response.current_assets = <<>>

-----------------------------------------------------------------------------
(* Which vehicles the dashboard leaves out.                                *)

(* The entries of the maintenance reminder list for vehicle v.             *)
MaintenanceEntries(v) ==
    {i \in DOMAIN response.maintenance_reminders :
        response.maintenance_reminders[i].vehicle = v}

(* C11: a vehicle whose status is not active has no inspection reminder    *)
(* and no maintenance reminder, and an active vehicle without a            *)
(* manufacture date has no inspection reminder, whatever inspection        *)
(* records it has; the dashboard answers without an error.                 *)
C11_InactiveOrUndatedSkipped ==
    DashboardAnswered =>
        /\ response.status_code = 200
        /\ \A v \in DOMAIN vehicles :
              /\ vehicles[v].status # "active" =>
                    InspectionEntries(v) = {} /\ MaintenanceEntries(v) = {}
              /\ vehicles[v].manufacture_date = None => InspectionEntries(v) = {}

(* A retired car of 2015 with a completed inspection long ago, which as an *)
(* active one would be in both lists: both lists are empty.                *)
C11_Witness ==
    /\ DashboardAnswered
    /\ \E v \in DOMAIN vehicles :
          /\ vehicles[v].status = "retired"
          /\ vehicles[v].vehicle_type = "car"
          /\ vehicles[v].manufacture_date = Some(MkDate(2015, 1, 1))
          /\ CompletedOn(v) = {MkDate(2023, 12, 1)}
    /\ today = MkDate(2025, 6, 1)
    /\ response.inspection_reminders = <<>>
    /\ response.maintenance_reminders = <<>>

-----------------------------------------------------------------------------
(* Inspections notified but not completed.                                 *)

(* The inspection records of vehicle v without a completion date.          *)
Uncompleted(v) ==
    {i \in DOMAIN inspections : inspections[i].vehicle_id = v
                                /\ inspections[i].inspected_on = None}

(* The last completed inspection of v, from the completed records alone.   *)
LastCompleted(v) ==
    IF CompletedOn(v) = {} THEN None
    ELSE Some(CHOOSE d \in CompletedOn(v) : IsLastInspection(v, d))

(* The due date of a vehicle never inspected, by type and age.             *)
FirstDue(vehicle_type, age, mfg) ==
    IF vehicle_type = "car"
    THEN IF age < 5 THEN None
         ELSE IF age < 10 THEN Some(AddYears(mfg, 5)) ELSE Some(AddYears(mfg, 10))
    ELSE IF vehicle_type \in {"motorcycle", "ev_scooter"}
    THEN IF age < 5 THEN None ELSE Some(AddYears(mfg, 5))
    ELSE IF age < 5 THEN Some(AddYears(mfg, 1)) ELSE Some(AddYears(mfg, 5))

(* C14: an inspection record without inspected_on never counts as the      *)
(* last performed inspection: the last inspection the dashboard uses and   *)
(* reports is the latest completed one, none when no record is completed,  *)
(* and a vehicle whose records are all uncompleted gets the due date of a  *)
(* vehicle never inspected.                                                *)
C14_UncompletedInspectionIgnored ==
    DashboardAnswered =>
        \A v \in Subject(VehicleType) :
            LET l == Val(locals[v])
                mfg == Val(vehicles[v].manufacture_date)
            IN  /\ l.last_insp_date = LastCompleted(v)
                /\ \A i \in InspectionEntries(v) :
                      response.inspection_reminders[i].last_inspection_date = LastCompleted(v)
                /\ CompletedOn(v) = {} =>
                      l.next_due_date =
                          FirstDue(vehicles[v].vehicle_type, AgeInYears(mfg, today), mfg)

(* A car of 2015 whose only inspection record is uncompleted: it is listed *)
(* with no last inspection, due on its 5th anniversary.                    *)
C14_Witness ==
    /\ DashboardAnswered
    /\ \E v \in Subject({"car"}) :
          /\ vehicles[v].manufacture_date = Some(MkDate(2015, 1, 1))
          /\ Uncompleted(v) # {}
          /\ CompletedOn(v) = {}
          /\ \E i \in InspectionEntries(v) :
                /\ response.inspection_reminders[i].last_inspection_date = None
                /\ response.inspection_reminders[i].next_due_date = Some(MkDate(2020, 1, 1))

-----------------------------------------------------------------------------
(* The fee a write made, against the record it saved.                      *)

ImportWritten ==
    /\ request'.handler = "import_maintenance"
    /\ response'.status_code = 200

(* The maintenance records an import step added.                           *)
Imported == {maintenance'[i] : i \in DOMAIN maintenance' \ DOMAIN maintenance}

(* The fee a step added, when it added one.                                *)
NewFee == fees'[Len(fees')]

(* The payee of a record: its handler, else its user, else nobody.         *)
Payee(record) ==
    IF record.handler_id # None THEN record.handler_id
    ELSE IF record.user_id # None THEN record.user_id
    ELSE None

(* C15: the payee of the fee a write makes is the handler of the record    *)
(* saved when it has one, otherwise its user when it has one, otherwise    *)
(* null; a record with a positive amount gets its fee also when the payee  *)
(* is null.  For the maintenance form, the inspection form and the import. *)
C15_PayeeHandlerThenUser ==
    [][/\ MaintenanceWritten =>
             /\ Positive(SavedMaintenance.amount) => FeesAdded = 1
             /\ FeesAdded = 1 => NewFee.user_id = Payee(SavedMaintenance)
       /\ InspectionWritten =>
             /\ Positive(SavedInspection.amount) => FeesAdded = 1
             /\ FeesAdded = 1 => NewFee.user_id = Payee(SavedInspection)
       /\ ImportWritten =>
             \A record \in Imported :
                 /\ Positive(record.amount) => FeesAdded = 1
                 /\ FeesAdded = 1 => NewFee.user_id = Payee(record)]_vars

(* A maintenance record with handler e1 and user e2 made a fee for e1; an  *)
(* inspection record with neither made a fee for nobody.                   *)
C15_Witness ==
    /\ request.handler = "create_or_update_inspection"
    /\ response.status_code = 200
    /\ 1 \in DOMAIN maintenance
    /\ maintenance[1].handler_id = Some("e1")
    /\ maintenance[1].user_id = Some("e2")
    /\ inspections[1].handler_id = None
    /\ inspections[1].user_id = None
    /\ Len(fees) = 2
    /\ fees[1].fee_type = "maintenance_service"
    /\ fees[1].user_id = Some("e1")
    /\ fees[2].fee_type = "inspection_fee"
    /\ fees[2].user_id = None

(* The fee category of a maintenance category.                             *)
FeeCategory(category) ==
    CASE category = "repair" -> "repair_parts"
      [] category \in {"maintenance", "carwash", "deep_cleaning", "ritual_cleaning"}
            -> "maintenance_service"

(* C16: the fee a maintenance write makes is of type repair_parts when the *)
(* record's category is repair and maintenance_service for every other     *)
(* category; the fee an inspection write makes is of type inspection_fee   *)
(* for every kind; the fee's amount is the amount the record was saved     *)
(* with.                                                                   *)
C16_FeeTypeAndAmount ==
    [][/\ (MaintenanceWritten /\ FeesAdded = 1) =>
             /\ NewFee.fee_type = FeeCategory(SavedMaintenance.category)
             /\ NewFee.amount = SavedMaintenance.amount
       /\ (InspectionWritten /\ FeesAdded = 1) =>
             /\ NewFee.fee_type = "inspection_fee"
             /\ NewFee.amount = SavedInspection.amount]_vars

(* A repair of 1500 handled by e1 made a repair_parts fee of 1500 for e1;  *)
(* then a reinspection of 300 made an inspection fee of 300.               *)
C16_Witness ==
    /\ request.handler = "create_or_update_inspection"
    /\ response.status_code = 200
    /\ 1 \in DOMAIN maintenance
    /\ maintenance[1].category = "repair"
    /\ maintenance[1].handler_id = Some("e1")
    /\ inspections[1].kind = "reinspection"
    /\ Len(fees) = 2
    /\ fees[1].fee_type = "repair_parts"
    /\ fees[1].amount = Some(150000)
    /\ fees[1].user_id = Some("e1")
    /\ fees[2].fee_type = "inspection_fee"
    /\ fees[2].amount = Some(30000)

(* C17: the fee a write makes is paid iff the record was saved as          *)
(* reconciled by that write, and a later edit of the record, also one that *)
(* changes is_reconciled, leaves is_paid of every fee made before as it    *)
(* was.                                                                    *)
C17_PaidMirrorsAtCreation ==
    [][/\ (MaintenanceWritten /\ FeesAdded = 1) =>
             NewFee.is_paid = SavedMaintenance.is_reconciled
       /\ (InspectionWritten /\ FeesAdded = 1) =>
             NewFee.is_paid = SavedInspection.is_reconciled
       /\ (MaintenanceEdited \/ InspectionEdited) =>
             \A i \in DOMAIN fees : fees'[i].is_paid = fees[i].is_paid]_vars

(* An inspection record was saved as reconciled and made a paid fee; it    *)
(* was then edited to unreconciled: the first fee is still paid, the fee   *)
(* of the edit is not.                                                     *)
C17_Witness ==
    /\ request.handler = "create_or_update_inspection"
    /\ request.insp_id # None
    /\ response.status_code = 200
    /\ DOMAIN maintenance = {}
    /\ ~inspections[1].is_reconciled
    /\ Len(fees) = 2
    /\ fees[1].is_paid
    /\ ~fees[2].is_paid

(* The provenance note of a fee has the text among its parts.              *)
Embeds(note, text) == \E i \in DOMAIN note : note[i] = text

HasNotes(record) == record.notes # None /\ record.notes # Some("")

(* C18 as stated: the note of every fee made, from a maintenance and from  *)
(* an inspection record alike, embeds the record's category or kind and    *)
(* the record's free-text notes.                                           *)
C18_NoteEmbedsCategoryAndNotes ==
    [][/\ (MaintenanceWritten /\ FeesAdded = 1) =>
             /\ Embeds(NewFee.notes, MAINTENANCE_CATEGORY_MAP[SavedMaintenance.category])
             /\ HasNotes(SavedMaintenance) =>
                   Embeds(NewFee.notes, Val(SavedMaintenance.notes))
       /\ (InspectionWritten /\ FeesAdded = 1) =>
             /\ Embeds(NewFee.notes, INSPECTION_KIND_MAP[SavedInspection.kind])
             /\ HasNotes(SavedInspection) =>
                   Embeds(NewFee.notes, Val(SavedInspection.notes))]_vars

(* C18 amended: the note of a fee made from a maintenance record embeds    *)
(* the record's category and its free-text notes; the note of a fee made   *)
(* from an inspection record embeds the record's kind and not its notes.   *)
C18_NoteBySource ==
    [][/\ (MaintenanceWritten /\ FeesAdded = 1) =>
             /\ Embeds(NewFee.notes, MAINTENANCE_CATEGORY_MAP[SavedMaintenance.category])
             /\ HasNotes(SavedMaintenance) =>
                   Embeds(NewFee.notes, Val(SavedMaintenance.notes))
       /\ (InspectionWritten /\ FeesAdded = 1) =>
             /\ Embeds(NewFee.notes, INSPECTION_KIND_MAP[SavedInspection.kind])
             /\ HasNotes(SavedInspection) =>
                   ~Embeds(NewFee.notes, Val(SavedInspection.notes))]_vars

(* A maintenance record with notes made a fee whose note has them; an      *)
(* inspection record with notes made a fee whose note has the kind only.   *)
C18_Witness ==
    /\ request.handler = "create_or_update_inspection"
    /\ response.status_code = 200
    /\ 1 \in DOMAIN maintenance
    /\ maintenance[1].notes = Some("oil change")
    /\ inspections[1].notes = Some("passed")
    /\ Len(fees) = 2
    /\ fees[1].notes = <<"auto", "routine maintenance", "oil change">>
    /\ fees[2].notes = <<"auto", "inspection fee", "periodic inspection">>

-----------------------------------------------------------------------------
(* The maintenance cadence, stated on the state right after a dashboard    *)
(* request.                                                                *)

(* The dates of the routine maintenance of vehicle v.                      *)
RoutineDone(v) ==
    {Val(maintenance[m].performed_on) :
        m \in {n \in DOMAIN maintenance : /\ maintenance[n].vehicle_id = v
                                          /\ maintenance[n].category = "maintenance"
                                          /\ maintenance[n].performed_on # None}}

LastRoutine(v) == CHOOSE d \in RoutineDone(v) : \A e \in RoutineDone(v) : e <= d

(* Day t is more than 180 days after the manufacture date of vehicle v.    *)
PastHalfYear(v, t) ==
    /\ vehicles[v].manufacture_date # None
    /\ DayNumber(t) - DayNumber(Val(vehicles[v].manufacture_date)) > 180

(* C12: the maintenance due date of an active vehicle is the date of its   *)
(* most recent routine maintenance + 6 months; with no routine maintenance *)
(* it is today iff today is more than 180 days after the manufacture date, *)
(* and otherwise there is no due date and no maintenance reminder.         *)
C12_MaintenanceDue ==
    DashboardAnswered =>
        \A v \in DOMAIN maint_locals :
            LET due == maint_locals[v].next_maint_due_date
            IN  /\ RoutineDone(v) # {} => due = Some(AddMonths(LastRoutine(v), 6))
                /\ (RoutineDone(v) = {} /\ PastHalfYear(v, today)) => due = Some(today)
                /\ (RoutineDone(v) = {} /\ ~PastHalfYear(v, today)) =>
                      due = None /\ MaintenanceEntries(v) = {}

(* The van is 181 days old and has a maintenance record but no routine    *)
(* maintenance with a date: it is due today and listed.                    *)
C12_Witness ==
    /\ DashboardAnswered
    /\ today = MkDate(2024, 2, 2)
    /\ DOMAIN maint_locals = {1, 2}
    /\ vehicles[2].manufacture_date = Some(MkDate(2023, 8, 5))
    /\ RoutineDone(2) = {}
    /\ \E m \in DOMAIN maintenance : maintenance[m].vehicle_id = 2
    /\ maint_locals[2].next_maint_due_date = Some(today)
    /\ MaintenanceEntries(2) # {}

(* The due date the dashboard would compute for vehicle v on day t from    *)
(* the maintenance table as it is, and whether it would list the vehicle.  *)
DashboardDue(v, t) ==
    LET c == last_maint_candidates(v)
    IN  next_maint_due_date(
            v, IF c = {} THEN None ELSE maintenance[CHOOSE m \in c : TRUE].performed_on, t)

WouldList(v, t) == InReminderWindow(DashboardDue(v, t), t)

(* A record counts toward the cadence: routine maintenance with a date.    *)
Counts(record) == record.category = "maintenance" /\ record.performed_on # None

(* A step that adds a record that does not count, edits one that does not  *)
(* count into one that does not count, or removes one that does not count. *)
OtherRecordStep ==
    \/ /\ MaintenanceWritten
       /\ ~Counts(SavedMaintenance)
       /\ request'.maint_id # None => ~Counts(maintenance[Val(request'.maint_id)])
    \/ /\ request'.handler = "delete_maintenance"
       /\ response'.status_code = 200
       /\ Val(request'.maint_id) \in DOMAIN maintenance
       /\ ~Counts(maintenance[Val(request'.maint_id)])

(* C13: only routine maintenance with a performed_on date counts toward    *)
(* the cadence: adding, editing or removing a record of another category,  *)
(* however recent, or a routine one without a date, changes no vehicle's   *)
(* maintenance due date and no vehicle's presence in the reminder list, on *)
(* any day.                                                                *)
C13_OtherCategoriesIgnored ==
    [][OtherRecordStep =>
          \A v \in DOMAIN vehicles, t \in FleetDays :
              /\ DashboardDue(v, t)' = DashboardDue(v, t)
              /\ WouldList(v, t)' = WouldList(v, t)]_vars

(* The car had routine maintenance on 2023-08-31; its second record has    *)
(* just been saved by an edit as a repair of January.                      *)
C13_Witness ==
    /\ request.handler = "create_or_update_maintenance"
    /\ request.maint_id = Some(2)
    /\ response.status_code = 200
    /\ DOMAIN maintenance = {1, 2}
    /\ maintenance[1].vehicle_id = 1
    /\ maintenance[1].category = "maintenance"
    /\ maintenance[1].performed_on = Some(MkDate(2023, 8, 31))
    /\ maintenance[2].vehicle_id = 1
    /\ maintenance[2].category = "repair"
    /\ maintenance[2].performed_on = Some(MkDate(2024, 1, 15))
    /\ DashboardDue(1, FirstDay) = Some(MkDate(2024, 2, 29))


-----------------------------------------------------------------------------
(* The order of the dashboard's inspection reminder list.                  *)

InspectionList == response.inspection_reminders

(* C19: the inspection reminder list of a dashboard is in ascending order  *)
(* of next due date: no entry has a later due date than the entry after it. *)
C19_InspectionListSorted ==
    DashboardAnswered =>
        \A i \in 1..(Len(InspectionList) - 1) :
            Val(InspectionList[i].next_due_date)
                <= Val(InspectionList[i + 1].next_due_date)

(* A dashboard lists both vehicles, the car overdue since 2020 before the  *)
(* van due in August 2024.                                                 *)
C19_Witness ==
    /\ DashboardAnswered
    /\ Len(InspectionList) = 2
    /\ InspectionList[1].vehicle = 1
    /\ InspectionList[1].is_overdue
    /\ InspectionList[2].vehicle = 2
    /\ ~InspectionList[2].is_overdue
    /\ Val(InspectionList[1].next_due_date) < Val(InspectionList[2].next_due_date)


-----------------------------------------------------------------------------
(* The order of the dashboard's maintenance reminder list.                 *)

MaintenanceList == response.maintenance_reminders

NeverMaintained(entry) == entry.last_maintenance_date = None

(* The date an entry is ordered by: its last-maintenance date, today for a *)
(* vehicle never maintained.                                               *)
OrderedBy(entry) ==
    IF NeverMaintained(entry) THEN today ELSE Val(entry.last_maintenance_date)

(* C20 as stated: every listed vehicle with no routine maintenance record  *)
(* precedes every listed vehicle that has one.                             *)
C20_NeverMaintainedFirst ==
    DashboardAnswered =>
        \A i, j \in DOMAIN MaintenanceList :
            /\ NeverMaintained(MaintenanceList[i])
            /\ ~NeverMaintained(MaintenanceList[j])
            => i < j

(* C20, amended: the maintenance reminder list is in ascending order of    *)
(* last-maintenance date, a never-maintained vehicle ordered as if         *)
(* maintained today, so that every listed vehicle with a routine           *)
(* maintenance record precedes every listed vehicle with none.             *)
C20_NeverMaintainedLast ==
    DashboardAnswered =>
        /\ \A i \in 1..(Len(MaintenanceList) - 1) :
              OrderedBy(MaintenanceList[i]) <= OrderedBy(MaintenanceList[i + 1])
        /\ \A i, j \in DOMAIN MaintenanceList :
              /\ ~NeverMaintained(MaintenanceList[i])
              /\ NeverMaintained(MaintenanceList[j])
              => i < j

(* A dashboard lists the car, last maintained on 2023-08-31, before the    *)
(* van, never maintained and more than 180 days old.                       *)
C20_Witness ==
    /\ DashboardAnswered
    /\ Len(MaintenanceList) = 2
    /\ MaintenanceList[1].vehicle = 1
    /\ MaintenanceList[1].last_maintenance_date = Some(MkDate(2023, 8, 31))
    /\ MaintenanceList[2].vehicle = 2
    /\ NeverMaintained(MaintenanceList[2])
    /\ MaintenanceList[2].status = "no_record"


-----------------------------------------------------------------------------
(* The classification of maintenance reminders.                            *)

(* The due date of a listed vehicle that has routine maintenance.          *)
MaintenanceDueOf(entry) ==
    AddMonths(Val(entry.last_maintenance_date), maintenance_time_interval_months)

(* C21: a listed vehicle whose maintenance due date (last routine          *)
(* maintenance + 6 months) lies between today and today + buffer inclusive *)
(* is reported as upcoming, and a vehicle is reported as overdue only when *)
(* that due date is before today.                                          *)
C21_MaintenanceUpcomingOrOverdue ==
    DashboardAnswered =>
        \A i \in DOMAIN MaintenanceList :
            LET entry == MaintenanceList[i]
            IN  ~NeverMaintained(entry) =>
                   /\ (/\ today <= MaintenanceDueOf(entry)
                       /\ MaintenanceDueOf(entry) <= reminder_date_threshold(today))
                      => entry.status = "upcoming"
                   /\ entry.status = "overdue_time" => MaintenanceDueOf(entry) < today


-----------------------------------------------------------------------------
(* The asset reducer and the order of its input.                           *)

(* C22: the current-holdings list depends only on the custody events of    *)
(* the vehicle, not on the order in which they are loaded: every order in  *)
(* which the query may return the same events gives the list that was      *)
(* answered, also when two events of one key carry the same log_date.      *)
C22_HoldingsIndependentOfOrder ==
    AssetListAnswered =>
        \A rows \in DescByLogDate(LogsOf(request.vehicle_id)) :
            current_assets(rows) = response.current_assets


-----------------------------------------------------------------------------
(* Events without a description in the asset reducer.                      *)

Undescribed(r) == ~Described(r)

(* The undescribed events of asset type T in the history, and the latest   *)
(* of them.                                                                *)
UndescribedOf(T) == {r \in History : Undescribed(r) /\ r.asset_type = T}

LatestUndescribed(T) ==
    {r \in UndescribedOf(T) : \A s \in UndescribedOf(T) : s.log_date <= r.log_date}

(* The positions of the undescribed entries of asset type T in the list.   *)
UndescribedEntries(T) ==
    {i \in DOMAIN response.current_assets :
        /\ Undescribed(response.current_assets[i])
        /\ response.current_assets[i].asset_type = T}

(* C23: events with an empty or null description are keyed by a            *)
(* placeholder scoped to their asset type.  Undescribed events of one type *)
(* share one key: the list has at most one undescribed entry per type, the *)
(* latest.  Undescribed events of different types, and an undescribed and  *)
(* a described event of different types, never share a key: a type whose   *)
(* latest undescribed events are all held has its undescribed entry,       *)
(* whatever events the other types have.                                   *)
C23_PlaceholderScopedToType ==
    AssetListAnswered =>
        /\ \A a, b \in History :
              Undescribed(a) /\ (Undescribed(b) \/ a.asset_type # b.asset_type) =>
                 (asset_key(a) = asset_key(b)
                     <=> Undescribed(b) /\ a.asset_type = b.asset_type)
        /\ \A T \in AssetType :
              /\ Cardinality(UndescribedEntries(T)) <= 1
              /\ \A i \in UndescribedEntries(T) :
                    response.current_assets[i] \in LatestUndescribed(T)
              /\ (/\ UndescribedOf(T) # {}
                  /\ \A s \in LatestUndescribed(T) : s.status \in {"assigned", "returned"})
                 => UndescribedEntries(T) # {}

(* An undescribed key of January, a key with an empty description of June  *)
(* and an undescribed dashcam: the list holds the June key and the         *)
(* dashcam.                                                                *)
C23_Witness ==
    /\ AssetListAnswered
    /\ BagCardinality(asset_logs) = 3
    /\ \E r \in History :
          r.asset_type = "key" /\ r.description = None /\ r.log_date = MkDate(2024, 1, 1)
    /\ Len(response.current_assets) = 2
    /\ \E i \in UndescribedEntries("key") :
          /\ response.current_assets[i].description = Some("")
          /\ response.current_assets[i].log_date = MkDate(2024, 6, 1)
    /\ UndescribedEntries("dashcam") # {}


-----------------------------------------------------------------------------
(* The order of the current-holdings list.                                 *)

(* The description an entry is ordered by: the empty string when missing.  *)
ShownDescription(r) == IF r.description = None THEN "" ELSE Val(r.description)

(* Entry a may stand before entry b: by status, then asset type, then      *)
(* description, each in the order of its text.                             *)
MayPrecede(a, b) ==
    \/ Rank(StatusOrder, a.status) < Rank(StatusOrder, b.status)
    \/ /\ a.status = b.status
       /\ \/ Rank(AssetTypeOrder, a.asset_type) < Rank(AssetTypeOrder, b.asset_type)
          \/ /\ a.asset_type = b.asset_type
             /\ Rank(DescriptionOrder, ShownDescription(a))
                   <= Rank(DescriptionOrder, ShownDescription(b))

(* C24: the current-holdings list is ordered by (status, asset_type,       *)
(* description): every assigned entry precedes every returned entry, and   *)
(* within one status the entries are ordered by asset type and then by     *)
(* description, a missing description ordering as the empty string.        *)
C24_HoldingsOrdered ==
    AssetListAnswered =>
        LET cur == response.current_assets
        IN  /\ \A i, j \in DOMAIN cur :
                  cur[i].status = "assigned" /\ cur[j].status = "returned" => i < j
            /\ \A i, j \in DOMAIN cur : i < j => MayPrecede(cur[i], cur[j])

(* The assigned spare key stands before the returned dashcam and the       *)
(* returned dashcam before the returned undescribed key.                   *)
C24_Witness ==
    /\ AssetListAnswered
    /\ Len(response.current_assets) = 3
    /\ response.current_assets[1].status = "assigned"
    /\ response.current_assets[1].asset_type = "key"
    /\ response.current_assets[1].description = Some("spare")
    /\ response.current_assets[2].status = "returned"
    /\ response.current_assets[2].asset_type = "dashcam"
    /\ response.current_assets[3].status = "returned"
    /\ response.current_assets[3].asset_type = "key"
    /\ response.current_assets[3].description = None


-----------------------------------------------------------------------------
(* The record and its fee in one transaction.                              *)

(* A maintenance or inspection write request that answered with an error.  *)
WriteFailed ==
    /\ request'.handler \in {"create_or_update_maintenance", "create_or_update_inspection"}
    /\ response'.status_code # 200

(* C25: the fee is persisted in the same transaction as the maintenance or *)
(* inspection write that triggers it.  A write that reports an error       *)
(* persists neither a record change nor a fee; a successful write with an  *)
(* amount above zero persists the record and one fee of that amount; and   *)
(* the fees table changes only in a successful write with an amount above  *)
(* zero.                                                                   *)
C25_FeeInSameTransaction ==
    [][/\ WriteFailed =>
             /\ maintenance' = maintenance
             /\ inspections' = inspections
             /\ fees' = fees
       /\ (MaintenanceWritten /\ Positive(SavedMaintenance.amount)) =>
             /\ FeesAdded = 1
             /\ SubSeq(fees', 1, Len(fees)) = fees
             /\ NewFee.amount = SavedMaintenance.amount
             /\ NewFee.vehicle_id = Some(SavedMaintenance.vehicle_id)
       /\ (InspectionWritten /\ Positive(SavedInspection.amount)) =>
             /\ FeesAdded = 1
             /\ SubSeq(fees', 1, Len(fees)) = fees
             /\ NewFee.amount = SavedInspection.amount
             /\ NewFee.vehicle_id = Some(SavedInspection.vehicle_id)
       /\ fees' # fees =>
             \/ MaintenanceWritten /\ Positive(SavedMaintenance.amount)
             \/ InspectionWritten /\ Positive(SavedInspection.amount)]_vars

(* An edit of the maintenance record answered with an error: the record    *)
(* keeps its amount of 1500 and the one fee of 1500 is the only fee.       *)
C25_Witness ==
    /\ request.handler = "create_or_update_maintenance"
    /\ request.maint_id = Some(1)
    /\ response.status_code = 500
    /\ 1 \in DOMAIN maintenance
    /\ maintenance[1].amount = Some(150000)
    /\ Len(fees) = 1
    /\ fees[1].amount = Some(150000)
    /\ inspections = <<>>


-----------------------------------------------------------------------------
(* Reading changes nothing, and reading again gives the same answer.       *)

(* The two reminder lists the dashboard computes on day t from the tables  *)
(* as they are, when the query returns the vehicles in the given order and *)
(* max returns the rows pick.                                              *)
DashboardLists(t, order, pick) ==
    <<SortInspectionReminders(
         Appended([i \in DOMAIN order |-> InspectionReminder(order[i], t)]), t),
      SortMaintenanceReminders(
         Appended([i \in DOMAIN order |->
                      MaintenanceReminder(order[i], pick[order[i]], t)]), t)>>

(* C26: computing the dashboard reminders changes no stored vehicle,       *)
(* inspection, maintenance, custody-event or fee record, and repeating the *)
(* computation on the same stored records with the same today yields the   *)
(* lists that were answered, in the same order.                            *)
C26_ReadsRepeatable ==
    [][request'.handler = "get_dashboard" =>
          /\ UNCHANGED <<vehicles, inspections, maintenance, fees, asset_logs>>
          /\ \A order \in Orderings(active_vehicles), pick \in LastMaintChoices :
                DashboardLists(today', order, pick)
                   = <<response'.inspection_reminders, response'.maintenance_reminders>>]_vars


-----------------------------------------------------------------------------
(* Disposal records.                                                       *)

DisposalSaved ==
    /\ request'.handler = "create_or_update_disposal"
    /\ response'.status_code = 200

(* C27: a vehicle has at most one disposal record after any sequence of    *)
(* create_or_update_disposal and delete_disposal requests: a successful    *)
(* create_or_update_disposal for a vehicle that has a record updates that  *)
(* record and adds none.                                                   *)
C27_OneDisposalPerVehicle ==
    [][/\ \A v \in FleetIds : Cardinality(DisposalsOf(v))' <= 1
       /\ (DisposalSaved /\ DisposalsOf(request'.vehicle_id) # {}) =>
             /\ DOMAIN disposals' = DOMAIN disposals
             /\ \A d \in DOMAIN disposals :
                   disposals[d].vehicle_id # request'.vehicle_id
                      => disposals'[d] = disposals[d]]_vars

(* Both vehicles are disposed of, each with one record; the car's record   *)
(* carries a reason after a successful disposal request for the car.       *)
C27_Witness ==
    /\ request.handler = "create_or_update_disposal"
    /\ request.vehicle_id = 1
    /\ response.status_code = 200
    /\ Cardinality(DisposalsOf(1)) = 1
    /\ Cardinality(DisposalsOf(2)) = 1
    /\ \A d \in DisposalsOf(1) : disposals[d].reason = Some("scrapped")


(* The vehicles that have a disposal record.                               *)
Disposed == {disposals[d].vehicle_id : d \in DOMAIN disposals}

(* C28: after any sequence of create_or_update_disposal, delete_disposal   *)
(* and create_or_update_vehicle requests, every vehicle that has a         *)
(* disposal record has status retired, and so has no reminder on the       *)
(* dashboard.                                                              *)
C28_DisposedIsRetired ==
    /\ \A v \in Disposed : v \in DOMAIN vehicles /\ vehicles[v].status = "retired"
    /\ DashboardAnswered =>
          \A v \in Disposed : InspectionEntries(v) = {} /\ MaintenanceEntries(v) = {}


-----------------------------------------------------------------------------
(* The inspection reminder as today advances: two dashboard requests in a  *)
(* row, nothing written in between.                                        *)

DashboardAgain == DashboardAnswered /\ request'.handler = "get_dashboard"

(* The entries of vehicle v in the list of the second request.             *)
EntriesAfter(v) ==
    {response'.inspection_reminders[i] :
        i \in {j \in DOMAIN response'.inspection_reminders :
                  response'.inspection_reminders[j].vehicle = v}}

(* The vehicle was never inspected and the second request finds it in      *)
(* another age band than the first.                                        *)
EnteredNextBand(v) ==
    /\ CompletedOn(v) = {}
    /\ Val(locals'[v]).status # Val(locals[v]).status

(* C29 as stated: with the vehicle and its inspection records fixed, a     *)
(* reminder that is overdue on some day is listed and overdue on every     *)
(* later day, and its next_due_date never moves later.                     *)
C29_OverdueStaysOverdue ==
    [][DashboardAgain =>
          \A v \in DOMAIN vehicles : \A i \in InspectionEntries(v) :
              response.inspection_reminders[i].is_overdue =>
                 \E e \in EntriesAfter(v) :
                    /\ e.is_overdue
                    /\ Val(e.next_due_date)
                          <= Val(response.inspection_reminders[i].next_due_date)]_vars

(* C29, amended: a reminder that is overdue on some day is listed on every *)
(* later day.  It stays overdue with a next_due_date no later, unless the  *)
(* vehicle has no completed inspection and has entered its next age band   *)
(* (a car reaching 10 years, a truck or van reaching 5): then              *)
(* next_due_date is that anniversary.                                      *)
C29_OverdueStaysListed ==
    [][DashboardAgain =>
          \A v \in DOMAIN vehicles : \A i \in InspectionEntries(v) :
              response.inspection_reminders[i].is_overdue =>
                 \E e \in EntriesAfter(v) :
                    IF EnteredNextBand(v)
                    THEN /\ vehicles[v].vehicle_type \in {"car", "truck", "van"}
                         /\ e.next_due_date =
                               Some(AddYears(Val(vehicles[v].manufacture_date),
                                             IF vehicles[v].vehicle_type = "car"
                                             THEN 10 ELSE 5))
                    ELSE /\ e.is_overdue
                         /\ Val(e.next_due_date)
                               <= Val(response.inspection_reminders[i].next_due_date)]_vars

(* A car of 2015, never inspected, on its 10th anniversary: listed, due    *)
(* that day and not overdue.                                               *)
C29_Witness ==
    /\ DashboardAnswered
    /\ today = MkDate(2025, 1, 1)
    /\ 1 \in DOMAIN vehicles
    /\ vehicles[1].vehicle_type = "car"
    /\ vehicles[1].status = "active"
    /\ vehicles[1].manufacture_date = Some(MkDate(2015, 1, 1))
    /\ CompletedOn(1) = {}
    /\ \E i \in InspectionEntries(1) :
          /\ response.inspection_reminders[i].next_due_date = Some(MkDate(2025, 1, 1))
          /\ ~response.inspection_reminders[i].is_overdue


-----------------------------------------------------------------------------
(* The first inspection of a car, motorcycle or electric scooter.          *)

(* Active cars, motorcycles and electric scooters with a manufacture date  *)
(* and no completed inspection.                                            *)
NeverInspected ==
    {v \in Subject({"car", "motorcycle", "ev_scooter"}) : CompletedOn(v) = {}}

(* C30: for an active car, motorcycle or electric scooter with no          *)
(* completed inspection every inspection reminder has                      *)
(* next_due_date <= today: on a day before the 5th anniversary of the      *)
(* manufacture date, the lookahead buffer included, the vehicle is exempt  *)
(* and not listed.                                                         *)
C30_FirstInspectionNeverUpcoming ==
    DashboardAnswered =>
        \A v \in NeverInspected :
            /\ \A i \in InspectionEntries(v) :
                  Val(response.inspection_reminders[i].next_due_date) <= today
            /\ today < AddYears(Val(vehicles[v].manufacture_date), 5)
                  => InspectionEntries(v) = {}

(* A motorcycle made on 2020-02-29, never inspected, on the day before its *)
(* 5th anniversary: not listed, though the anniversary is within the       *)
(* buffer.                                                                 *)
C30_Witness ==
    /\ DashboardAnswered
    /\ today = MkDate(2025, 2, 27)
    /\ 1 \in NeverInspected
    /\ vehicles[1].vehicle_type = "motorcycle"
    /\ vehicles[1].manufacture_date = Some(MkDate(2020, 2, 29))
    /\ AddYears(MkDate(2020, 2, 29), 5) <= reminder_date_threshold(today)
    /\ InspectionEntries(1) = {}

=============================================================================
